---- MODULE Spec2Model ----
(***************************************************************************)
(* A model of the frame-processing core of the camera application:        *)
(*   - SLAMProcessor (src/src/lib/mapping-algorithms.ts): the point map,  *)
(*     the landmarks, the trajectory and the camera pose;                 *)
(*   - useMapping (src/src/hooks/use-mapping.ts): the hook around it;     *)
(*   - trackObjects (src/src/hooks/use-ai-detection.ts);                  *)
(*   - Analysis3D.analyzeMorphology and ImageProcessor                    *)
(*     (src/src/lib/3d-analysis.ts).                                      *)
(*                                                                         *)
(* Numbers.  The source computes in floating point; the model computes in *)
(* exact integers on fixed grids:                                         *)
(*   lengths      in units of 1e-4 map units (0.05 is 500, 0.1 is 1000),  *)
(*   depth        in hundredths (depth 1.0 is 100),                       *)
(*   confidences  in hundredths (0.3 is 30),                              *)
(*   time         in milliseconds.                                        *)
(* The frame is 200 x 200, so the focal length width * 0.5 is 100 and the *)
(* pinhole projection (sx - cx) / f * depth is the integer                *)
(* (sx - cx) * depth in length units (depth in hundredths).               *)
(***************************************************************************)
EXTENDS Integers, Sequences, FiniteSets, TLC

VARIABLES
    now,            \* Date.now(), in ms
    mapPoints,      \* SLAMProcessor.mapPoints
    landmarks,      \* SLAMProcessor.landmarks
    trajectory,     \* SLAMProcessor.trajectory: [points, totalDistance, averageSpeed]
    lastPosition,   \* SLAMProcessor.lastPosition
    calls,          \* number of processFrame calls made (bounds the run)
    last,           \* the last operation and its inputs and result
    applied,        \* the camera movements applied since the last resetMap, summed
    state,          \* useMapping: the hook's state with every update applied
    captured,       \* useMapping: the state the callbacks in use close over
    motionVectorRef,\* useMapping: motionVectorRef.current
    performanceRef, \* useMapping: performanceRef.current
    returned,       \* useMapping: what the last processFrame call returned
    exported,       \* useMapping: what the last exportMap or getter call returned
    enableTracking, \* useAIDetection: config.enableTracking
    frames,         \* number of frames tracked (bounds the run)
    tracked,        \* the last trackObjects call: its arguments and its result
    morphObject,    \* analyzeMorphology: the object
    morphSamples,   \* analyzeMorphology: the depth-sample list
    morphResults,   \* what the calls of analyzeMorphology returned, in order
    enhInput,       \* enhanceNightVision: imageData
    enhSettings,    \* enhanceNightVision: config
    enhanced,       \* enhanceNightVision: enhanced
    enhStage,       \* enhanceNightVision: the statement last executed
    dateNow,        \* AIProcessor: what Date.now() returns, ms
    isProcessing,   \* AIProcessor.isProcessing
    lastProcessTime,\* AIProcessor.lastProcessTime
    invocations,    \* number of detectObjects calls made (bounds the run)
    invocation,     \* the last detectObjects call: when, and what it did
    detected,       \* what the last detection that completed returned
    aiState,        \* useAIDetection: the hook's state with every update applied
    aiClosure,      \* useAIDetection: what the callbacks in use close over
    aiPending,      \* useAIDetection: the processFrame call awaiting detectObjects
    aiReturned,     \* useAIDetection: the object list the hook reported last
    aiHistory,      \* useAIDetection: the threshold last set, the objects the
                    \* last detecting processFrame reported, and what came since
    cameraState,    \* useCamera: the hook's state with every update applied
    cameraCaptured, \* useCamera: the state its callbacks in use close over
    cameraManager,  \* CameraManager: its stream, and the streams opened so far
    cameraPending   \* useCamera: the initialize awaiting getUserMedia

engineVars ==
    <<now, mapPoints, landmarks, trajectory, lastPosition, calls, last, applied>>
hookVars == <<state, captured, motionVectorRef, performanceRef, returned, exported>>
trackerVars == <<enableTracking, frames, tracked>>
morphVars == <<morphObject, morphSamples, morphResults>>
enhancerVars == <<enhInput, enhSettings, enhanced, enhStage>>
detectorVars ==
    <<dateNow, isProcessing, lastProcessTime, invocations, invocation, detected>>
detectionVars == <<aiState, aiClosure, aiPending, aiReturned, aiHistory>>
cameraVars == <<cameraState, cameraCaptured, cameraManager, cameraPending>>
sessionVars == <<detectionVars, cameraVars>>
analysisVars == <<trackerVars, morphVars, enhancerVars, detectorVars, sessionVars>>

----------------------------------------------------------------------------
(* Bounds of the model *)

\* processFrame calls in one run
MaxCalls == 2
\* clock ticks in one run (each of TickMs)
MaxTicks == 3
\* frames handed to trackObjects in one run
MaxFrames == 2
\* depth samples in one list handed to analyzeMorphology
MaxSamples == 3
\* calls of analyzeMorphology on one input
MaxAnalyses == 2
\* detectObjects calls in a run
MaxInvocations == 3
\* clock steps of the detector in a run
MaxDetectorTicks == 5

\* the getUserMedia calls of a run that open a stream
MaxStreams == 2
\* Stand-in for the cap of 10000 map points (mapping-algorithms.ts:384,387):
\* the code's comparison and slice with the cap scaled down so that a run
\* exceeds it.
MapPointCap == 3
\* Stand-in for the cap of 50 landmarks (mapping-algorithms.ts:222).
LandmarkCap == 1
\* Stand-in for the cap of 1000 trajectory samples (mapping-algorithms.ts:115).
TrajectoryCap == 1
\* processFrame calls in one run that follows the trajectory
MaxMoves == 4
\* Stand-in for the cap of 1000 trajectory samples in those runs
TrajectoryWindow == 2

\* the clock advances in steps of 15 s
TickMs == 15 * 1000

----------------------------------------------------------------------------
(* Program constants, on the model's grids *)

\* maxAge, ms
MaxAge == 30000
\* point.confidence > 0.3
MinConfidence == 30
\* euclideanDistance3D(point, existing) < 0.05
DedupRadius == 500
\* clusterPoints: threshold = 0.1
ClusterThreshold == 1000
\* detectLandmarks: euclideanDistance(landmark.position, centeroid) < 0.2
LandmarkRadius == 2000
\* clusterPoints: cluster.length > 5
MinClusterKept == 5
\* detectLandmarks: cluster.length < 10
MinLandmarkSize == 10
\* expandCluster: subNeighbors.slice(0, 3)
SubNeighborFanOut == 3
\* estimateCameraMovement: motionVector * 0.01, in length units
MotionScale == 100
\* generateBoundaries: p.y < lastPosition[1] - 0.5
FloorOffset == 5000
\* generateBoundaries: slice(0, 100) and floorPoints.length > 10
FloorSlice == 100
FloorMin == 10

\* the frame handed to processFrame (imageData): its size
Frame == [width |-> 200, height |-> 200]

----------------------------------------------------------------------------
(* Helpers *)

Abs(n) == IF n < 0 THEN 0 - n ELSE n

Min2(a, b) == IF a < b THEN a ELSE b

Max2(a, b) == IF a > b THEN a ELSE b

\* the largest r in lo .. hi with r * r <= n, by bisection
RECURSIVE ISqrtBetween(_, _, _)
ISqrtBetween(n, lo, hi) ==
    IF lo >= hi THEN lo
    ELSE LET mid == (lo + hi + 1) \div 2
         IN  IF mid * mid <= n THEN ISqrtBetween(n, mid, hi)
             ELSE ISqrtBetween(n, lo, mid - 1)

\* Math.sqrt, rounded down (exact on the perfect squares the model's
\* displacements give); 46340 is the largest root of a 32-bit square
ISqrt(n) == ISqrtBetween(n, 0, Min2(n, 46340))

RECURSIVE SeqSum(_)
SeqSum(s) == IF s = <<>> THEN 0 ELSE Head(s) + SeqSum(Tail(s))

RECURSIVE SeqMin(_)
SeqMin(s) == IF Len(s) = 1 THEN s[1] ELSE Min2(s[1], SeqMin(Tail(s)))

RECURSIVE SeqMax(_)
SeqMax(s) == IF Len(s) = 1 THEN s[1] ELSE Max2(s[1], SeqMax(Tail(s)))

\* Array.prototype.slice(0, n)
Slice0(s, n) == SubSeq(s, 1, Min2(Len(s), n))

\* Array.prototype.sort((a, b) => b.confidence - a.confidence): stable,
\* by descending confidence
RECURSIVE InsertByConfidence(_, _)
InsertByConfidence(sorted, e) ==
    IF sorted = <<>> THEN <<e>>
    ELSE IF Head(sorted).confidence >= e.confidence
         THEN <<Head(sorted)>> \o InsertByConfidence(Tail(sorted), e)
         ELSE <<e>> \o sorted

RECURSIVE SortFrom(_, _)
SortFrom(s, acc) ==
    IF s = <<>> THEN acc ELSE SortFrom(Tail(s), InsertByConfidence(acc, Head(s)))

SortByConfidenceDesc(s) == SortFrom(s, <<>>)

----------------------------------------------------------------------------
(* Inputs of processFrame *)

\* A depth sample: [x, y, depth, confidence] (DepthPoint)
Sample(sx, sy, d, c) == [x |-> sx, y |-> sy, depth |-> d, confidence |-> c]

\* Two samples 0.06 apart once projected, and one between them
sA == Sample(100, 100, 100, 50)
sB == Sample(106, 100, 100, 50)
sP == Sample(103, 100, 100, 90)
\* Far from the others, at the pruning threshold of confidence
sLow == Sample(160, 100, 100, 30)
\* Far-apart samples of high confidence
sE1 == Sample(100, 120, 100, 95)
sE2 == Sample(110, 120, 100, 95)
sE3 == Sample(120, 120, 100, 95)
sE4 == Sample(130, 120, 100, 90)

\* Ten samples on neighbouring pixels: 0.01 apart once projected
ClusterBatch == [i \in 1 .. 10 |-> Sample(99 + i, 80, 100, 80)]

\* Seven samples on neighbouring pixels: 0.01 apart once projected
SmallCluster == [i \in 1 .. 7 |-> Sample(99 + i, 60, 100, 80)]

\* The depth-sample lists handed to processFrame
Batches ==
    << <<>>,
       <<sA, sB>>,
       <<sP, sP>>,
       <<sE1, sE2, sE3, sE4>> \o ClusterBatch \o <<sLow>>,
       SmallCluster >>

\* the lists of the runs of the whole engine
BatchIds == {b \in 1 .. Len(Batches) : Batches[b] # SmallCluster}

\* the lists of the runs that follow the landmarks: the ones that cluster
LandmarkBatchIds == {b \in 1 .. Len(Batches) : Len(Batches[b]) >= Len(SmallCluster)}

\* motionVector: absent, or a 3-axis hint
NoMotion == <<>>
MotionHints == {<<0, 0, 0>>, <<20, 0, 0>>}
MotionInputs == {NoMotion} \cup MotionHints

\* What the time-based simulation of estimateCameraMovement can return:
\* |x| <= 0.02, |y| <= 0.01, |z| <= 0.03
SimulatedMoves == {<<0, 100, 0>>}

\* 0.8 + Math.random() * 0.2
TrajectoryConfidences == {90}
\* 0.7 + Math.random() * 0.3
LandmarkConfidences == {85, 95}
\* types[Math.floor(Math.random() * types.length)]
LandmarkTypes == {"parede", "canto", "objeto", "superficie", "estrutura"}

\* data[pixelIndex .. pixelIndex + 2] || 0 of the frame: a synthetic image,
\* 0 outside the buffer
PixelColor(sx, sy) ==
    IF sx >= 0 /\ sx < Frame.width /\ sy >= 0 /\ sy < Frame.height
    THEN <<sx % 256, sy % 256, (sx + sy) % 256>>
    ELSE <<0, 0, 0>>

----------------------------------------------------------------------------
(* SLAMProcessor *)

\* estimateCameraMovement: the displacements it can return
EstimateCameraMovement(motionVector) ==
    IF motionVector # NoMotion
    THEN {<<motionVector[1] * MotionScale, motionVector[2] * MotionScale,
            motionVector[3] * MotionScale>>}
    ELSE SimulatedMoves

\* the length of a movement, rounded down to the length grid
Norm(movement) ==
    ISqrt(movement[1] * movement[1] + movement[2] * movement[2]
          + movement[3] * movement[3])

\* variant of UpdateTrajectory that takes the movement for the new position
UpdateTrajectoryFromOrigin(traj, pos, movement, conf, t, cap) ==
    [trajectory |->
        [points |-> Slice0(<<[position |-> movement, timestamp |-> t,
                              confidence |-> conf]>>, cap),
         totalDistance |-> traj.totalDistance,
         averageSpeed |-> traj.averageSpeed],
     lastPosition |-> movement]

\* variant of UpdateTrajectory that makes room by dropping the newest sample
UpdateTrajectoryEvictingNewest(traj, pos, movement, conf, t, cap) ==
    LET newPosition == <<pos[1] + movement[1], pos[2] + movement[2],
                         pos[3] + movement[3]>>
        pushed == Append(traj.points,
                         [position |-> newPosition, timestamp |-> t,
                          confidence |-> conf])
    IN  [trajectory |->
            [points |-> Slice0(pushed, cap),
             totalDistance |-> traj.totalDistance + Norm(movement),
             averageSpeed |-> traj.averageSpeed],
         lastPosition |-> newPosition]

\* updateTrajectory: the new [trajectory, lastPosition]; cap stands for the
\* 1000 samples kept
UpdateTrajectory(traj, pos, movement, conf, t, cap) ==
    LET newPosition == <<pos[1] + movement[1], pos[2] + movement[2],
                         pos[3] + movement[3]>>
        distance == ISqrt(movement[1] * movement[1] + movement[2] * movement[2]
                          + movement[3] * movement[3])
        pushed == Append(traj.points,
                         [position |-> newPosition, timestamp |-> t,
                          confidence |-> conf])
    IN  [trajectory |->
            [points |-> IF Len(pushed) > cap THEN Tail(pushed)
                        ELSE pushed,
             totalDistance |-> traj.totalDistance + distance,
             averageSpeed |-> traj.averageSpeed],
         lastPosition |-> newPosition]

\* convertDepthTo3D, one depth point
ProjectPoint(dp, pos, t) ==
    LET cx == Frame.width \div 2
        cy == Frame.height \div 2
        \* focalLength = width * 0.5 = 100: (sx - cx) / 100 * (depth / 100)
        \* is (sx - cx) * depth length units
        x_cam == (dp.x - cx) * dp.depth
        y_cam == (cy - dp.y) * dp.depth
        z_cam == dp.depth * 100
    IN  [x |-> pos[1] + x_cam, y |-> pos[2] + y_cam, z |-> pos[3] + z_cam,
         color |-> PixelColor(dp.x, dp.y),
         confidence |-> dp.confidence, timestamp |-> t]

\* convertDepthTo3D
ConvertDepthTo3D(depthPoints, pos, t) ==
    [i \in 1 .. Len(depthPoints) |-> ProjectPoint(depthPoints[i], pos, t)]

\* the square of euclideanDistance3D
Distance3DSq(a, b) ==
    (a.x - b.x) * (a.x - b.x) + (a.y - b.y) * (a.y - b.y)
    + (a.z - b.z) * (a.z - b.z)

\* euclideanDistance3D(a, b) < r
Within3D(a, b, r) == Distance3DSq(a, b) < r * r

\* variant of NearbyIndices that searches the landmark radius
NearbyIndicesWide(map, point) ==
    SelectSeq([i \in 1 .. Len(map) |-> i],
              LAMBDA i : Within3D(point, map[i], LandmarkRadius))

\* addPointsToMap: the indices of the map points near the new point
NearbyIndices(map, point) ==
    SelectSeq([i \in 1 .. Len(map) |-> i],
              LAMBDA i : Within3D(point, map[i], DedupRadius))

\* nearbyPoints.reduce((a, b) => a.confidence > b.confidence ? a : b),
\* as the index of the result in the map
RECURSIVE BestExistingFrom(_, _, _)
BestExistingFrom(map, a, rest) ==
    IF rest = <<>> THEN a
    ELSE BestExistingFrom(map,
             IF map[a].confidence > map[Head(rest)].confidence THEN a
             ELSE Head(rest),
             Tail(rest))

BestExisting(map, nearby) == BestExistingFrom(map, Head(nearby), Tail(nearby))

\* variant of AddPoint that pushes without looking for neighbours
AddPointAlways(map, point) == Append(map, point)

\* variant of AddPoint in which the new point also wins a tie
AddPointWinningTies(map, point) ==
    LET nearby == NearbyIndices(map, point)
    IN  IF nearby = <<>> THEN Append(map, point)
        ELSE LET index == BestExisting(map, nearby)
             IN  IF point.confidence >= map[index].confidence
                 THEN [map EXCEPT ![index] = point]
                 ELSE map

\* addPointsToMap, one point of the loop
AddPoint(map, point) ==
    LET nearby == NearbyIndices(map, point)
    IN  IF nearby = <<>> THEN Append(map, point)
        ELSE LET index == BestExisting(map, nearby)
             IN  IF point.confidence > map[index].confidence
                 THEN [map EXCEPT ![index] = point]
                 ELSE map

\* addPointsToMap
RECURSIVE AddPointsToMap(_, _)
AddPointsToMap(map, newPoints) ==
    IF newPoints = <<>> THEN map
    ELSE AddPointsToMap(AddPoint(map, Head(newPoints)), Tail(newPoints))

\* variant of OptimizeMap whose cap keeps the first points of the map
OptimizeMapKeepingFirst(map, t) ==
    Slice0(SelectSeq(map, LAMBDA p :
               t - p.timestamp < MaxAge /\ p.confidence > MinConfidence),
           MapPointCap)

\* variant of OptimizeMap without the size cap
OptimizeMapUncapped(map, t) ==
    SelectSeq(map, LAMBDA p :
        t - p.timestamp < MaxAge /\ p.confidence > MinConfidence)

\* variant of OptimizeMap without the age filter
OptimizeMapNoAging(map, t) ==
    LET fresh == SelectSeq(map, LAMBDA p : p.confidence > MinConfidence)
    IN  IF Len(fresh) > MapPointCap
        THEN Slice0(SortByConfidenceDesc(fresh), MapPointCap)
        ELSE fresh

\* variant of OptimizeMap that keeps a point of age exactly maxAge
OptimizeMapKeepsMaxAge(map, t) ==
    LET fresh == SelectSeq(map, LAMBDA p :
                     t - p.timestamp <= MaxAge /\ p.confidence > MinConfidence)
    IN  IF Len(fresh) > MapPointCap
        THEN Slice0(SortByConfidenceDesc(fresh), MapPointCap)
        ELSE fresh

\* optimizeMap
OptimizeMap(map, t) ==
    LET fresh == SelectSeq(map, LAMBDA p :
                     t - p.timestamp < MaxAge /\ p.confidence > MinConfidence)
    IN  IF Len(fresh) > MapPointCap
        THEN Slice0(SortByConfidenceDesc(fresh), MapPointCap)
        ELSE fresh

Indices(s) == [i \in 1 .. Len(s) |-> i]

SeqToSet(s) == {s[i] : i \in 1 .. Len(s)}

\* expandCluster, the body of its loop for one neighbour: the neighbour is
\* pushed whether or not an earlier neighbour already absorbed it
ExpandNeighbor(acc, neighbor, points) ==
    LET visited1 == acc.visited \cup {neighbor}
        subNeighbors == SelectSeq(Indices(points), LAMBDA q :
                            q \notin visited1
                            /\ Within3D(points[neighbor], points[q], ClusterThreshold))
        taken == Slice0(subNeighbors, SubNeighborFanOut)
    IN  [cluster |-> Append(acc.cluster, neighbor) \o taken,
         visited |-> visited1 \cup SeqToSet(taken)]

RECURSIVE ExpandNeighbors(_, _, _)
ExpandNeighbors(acc, neighbors, points) ==
    IF neighbors = <<>> THEN acc
    ELSE ExpandNeighbors(ExpandNeighbor(acc, Head(neighbors), points),
                         Tail(neighbors), points)

\* expandCluster: [cluster, visited], the cluster as indices into points
ExpandCluster(point, points, visited) ==
    LET visited0 == visited \cup {point}
        neighbors == SelectSeq(Indices(points), LAMBDA q :
                         q \notin visited0
                         /\ Within3D(points[point], points[q], ClusterThreshold))
    IN  ExpandNeighbors([cluster |-> <<point>>, visited |-> visited0],
                        neighbors, points)

\* clusterPoints, from the i-th point on
RECURSIVE ClusterFrom(_, _, _, _)
ClusterFrom(i, points, visited, clusters) ==
    IF i > Len(points) THEN clusters
    ELSE IF i \in visited THEN ClusterFrom(i + 1, points, visited, clusters)
    ELSE LET e == ExpandCluster(i, points, visited)
         IN  ClusterFrom(i + 1, points, e.visited,
                 IF Len(e.cluster) > MinClusterKept
                 THEN Append(clusters, e.cluster) ELSE clusters)

\* clusterPoints: the clusters, each a sequence of indices into points
ClusterPoints(points) == ClusterFrom(1, points, {}, <<>>)

\* calculateCentroid, rounded down to the length grid
CalculateCentroid(pts) ==
    <<SeqSum([i \in 1 .. Len(pts) |-> pts[i].x]) \div Len(pts),
      SeqSum([i \in 1 .. Len(pts) |-> pts[i].y]) \div Len(pts),
      SeqSum([i \in 1 .. Len(pts) |-> pts[i].z]) \div Len(pts)>>

\* calculateBounds
CalculateBounds(pts) ==
    LET xs == [i \in 1 .. Len(pts) |-> pts[i].x]
        ys == [i \in 1 .. Len(pts) |-> pts[i].y]
        zs == [i \in 1 .. Len(pts) |-> pts[i].z]
    IN  [width |-> SeqMax(xs) - SeqMin(xs),
         height |-> SeqMax(ys) - SeqMin(ys),
         depth |-> SeqMax(zs) - SeqMin(zs)]

\* volume < 0.01, that is w * h * d < 10^10 length units cubed, computed
\* without leaving 32 bits: floor(w * h * d / 10^5) < 10^5
VolumeIsSmall(b) ==
    LET wh == b.width * b.height
        scale == 100 * 1000
    IN  (wh \div scale) * b.depth + ((wh % scale) * b.depth) \div scale < scale

\* classifyLandmark; randomType is the type Math.random() picks
ClassifyLandmark(pts, randomType) ==
    LET b == CalculateBounds(pts)
    IN  IF b.width > b.height /\ b.width > b.depth THEN "parede"
        ELSE IF VolumeIsSmall(b) THEN "superficie"
        ELSE randomType

\* toFixed(2) of a length, in hundredths
ToFixed2(len) == (len + 50) \div 100

\* generateLandmarkDescription: the values the text is made of
GenerateLandmarkDescription(type, pts) ==
    LET b == CalculateBounds(pts)
    IN  [type |-> type, size |-> Len(pts), width |-> ToFixed2(b.width),
         height |-> ToFixed2(b.height), depth |-> ToFixed2(b.depth)]

\* calculateAverageColor, rounded down
CalculateAverageColor(pts) ==
    [c \in 1 .. 3 |-> SeqSum([i \in 1 .. Len(pts) |-> pts[i].color[c]]) \div Len(pts)]

\* extractLandmarkFeatures; the colours are left as avgColor (the code
\* divides them by 255)
ExtractLandmarkFeatures(pts) ==
    LET b == CalculateBounds(pts)
        c == CalculateCentroid(pts)
        a == CalculateAverageColor(pts)
    IN  <<b.width, b.height, b.depth, c[1], c[2], c[3], Len(pts), a[1], a[2], a[3]>>

\* the square of euclideanDistance
DistanceSq(a, b) ==
    (a[1] - b[1]) * (a[1] - b[1]) + (a[2] - b[2]) * (a[2] - b[2])
    + (a[3] - b[3]) * (a[3] - b[3])

\* the points of a cluster given as indices
ClusterMembers(cluster, points) == [i \in 1 .. Len(cluster) |-> points[cluster[i]]]

\* detectLandmarks, the loop over the clusters from the k-th on; random[k]
\* holds the draws of Math.random() for the k-th cluster
RECURSIVE DetectFrom(_, _, _, _, _, _)
DetectFrom(k, clusters, points, lms, t, random) ==
    IF k > Len(clusters) THEN lms
    ELSE LET pts == ClusterMembers(clusters[k], points)
             centeroid == CalculateCentroid(pts)
             landmarkType == ClassifyLandmark(pts, random[k].type)
             existing == \E j \in 1 .. Len(lms) :
                            DistanceSq(lms[j].position, centeroid)
                                < LandmarkRadius * LandmarkRadius
             newLandmark ==
                 [id |-> <<"landmark", t, k>>,
                  position |-> centeroid,
                  type |-> landmarkType,
                  confidence |-> random[k].confidence,
                  description |-> GenerateLandmarkDescription(landmarkType, pts),
                  features |-> ExtractLandmarkFeatures(pts)]
         IN  DetectFrom(k + 1, clusters, points,
                 IF Len(pts) < MinLandmarkSize \/ existing THEN lms
                 ELSE Append(lms, newLandmark),
                 t, random)

\* detectLandmarks after its call of clusterPoints
DetectLandmarksIn(lms, clusters, points, t, random) ==
    Slice0(SortByConfidenceDesc(DetectFrom(1, clusters, points, lms, t, random)),
           LandmarkCap)

\* detectLandmarks
DetectLandmarks(lms, points, t, random) ==
    DetectLandmarksIn(lms, ClusterPoints(points), points, t, random)

\* no type is drawn when classifyLandmark returns before Math.random()
NoDraw == "-"

TypeDraws(pts) ==
    LET b == CalculateBounds(pts)
    IN  IF (b.width > b.height /\ b.width > b.depth) \/ VolumeIsSmall(b)
        THEN {NoDraw} ELSE LandmarkTypes

\* the draws of Math.random() detectLandmarks can make for these clusters
RandomDraws(clusters, points) ==
    {r \in [1 .. Len(clusters) -> [confidence : LandmarkConfidences,
                                   type : LandmarkTypes \cup {NoDraw}]] :
        \A k \in 1 .. Len(clusters) :
            r[k].type \in TypeDraws(ClusterMembers(clusters[k], points))}

\* generateBoundaries
GenerateBoundaries(map, pos) ==
    LET floorPoints == Slice0(SelectSeq(map, LAMBDA p : p.y < pos[2] - FloorOffset),
                              FloorSlice)
    IN  IF Len(floorPoints) > FloorMin
        THEN <<[points |-> [i \in 1 .. Len(floorPoints) |->
                               <<floorPoints[i].x, floorPoints[i].y, floorPoints[i].z>>],
                type |-> "floor"]>>
        ELSE <<>>

\* getCurrentMap
GetCurrentMap(map, lms, pos) ==
    [points |-> [i \in 1 .. Len(map) |->
                    [x |-> map[i].x, y |-> map[i].y, z |-> map[i].z,
                     color |-> map[i].color]],
     landmarks |-> [i \in 1 .. Len(lms) |->
                       [id |-> lms[i].id, position |-> lms[i].position,
                        type |-> lms[i].type, confidence |-> lms[i].confidence]],
     boundaries |-> GenerateBoundaries(map, pos)]

EmptyTrajectory == [points |-> <<>>, totalDistance |-> 0, averageSpeed |-> 0]

----------------------------------------------------------------------------
(* The engine driven directly: SLAMProcessor's public operations and the  *)
(* clock                                                                    *)

\* the last operation on the engine or the clock: its name, the depth-sample
\* list and the motion hint it was given, whether it threw, and what
\* Math.random() returned to its detectLandmarks
LastOp(op, batch, motion, threw) ==
    [op |-> op, batch |-> batch, motion |-> motion, threw |-> threw,
     random |-> <<>>]

NoBatch == <<>>

\* no movement applied yet
NothingApplied == [displacement |-> <<0, 0, 0>>, distance |-> 0]

\* one more movement applied
Apply(movement) ==
    [displacement |-> <<applied.displacement[1] + movement[1],
                        applied.displacement[2] + movement[2],
                        applied.displacement[3] + movement[3]>>,
     distance |-> applied.distance + Norm(movement)]

EngineInit ==
    /\ now = 0
    /\ mapPoints = <<>>
    /\ landmarks = <<>>
    /\ trajectory = EmptyTrajectory
    /\ lastPosition = <<0, 0, 0>>
    /\ calls = 0
    /\ last = LastOp("new", NoBatch, NoMotion, FALSE)
    /\ applied = NothingApplied

\* time passes between two calls
ClockTick ==
    /\ now < MaxTicks * TickMs
    /\ now' = now + TickMs
    /\ last' = LastOp("tick", NoBatch, NoMotion, FALSE)
    /\ UNCHANGED <<mapPoints, landmarks, trajectory, lastPosition, calls, applied>>

\* processFrame(imageData, Batches[b], motion) returning its snapshot, in a
\* run of at most budget calls that keeps cap trajectory samples
SLAMProcessFrameWithin(b, motion, budget, cap) ==
    /\ calls < budget
    /\ \E movement \in EstimateCameraMovement(motion),
          trajConf \in TrajectoryConfidences :
          \E u \in {UpdateTrajectory(trajectory, lastPosition, movement, trajConf,
                                     now, cap)} :
          \E new3DPoints \in {ConvertDepthTo3D(Batches[b], u.lastPosition, now)} :
          \E clusters \in {ClusterPoints(new3DPoints)} :
              /\ trajectory' = u.trajectory
              /\ lastPosition' = u.lastPosition
              /\ applied' = Apply(movement)
              /\ mapPoints' = OptimizeMap(AddPointsToMap(mapPoints, new3DPoints), now)
              /\ \E random \in RandomDraws(clusters, new3DPoints) :
                    /\ landmarks' = DetectLandmarksIn(landmarks, clusters,
                                                      new3DPoints, now, random)
                    /\ last' = [LastOp("processFrame", Batches[b], motion, FALSE)
                                   EXCEPT !.random = random]
    /\ calls' = calls + 1
    /\ UNCHANGED now

\* processFrame(imageData, Batches[b], motion) returning its snapshot
SLAMProcessFrame(b, motion) ==
    SLAMProcessFrameWithin(b, motion, MaxCalls, TrajectoryCap)

\* processFrame on a malformed input (depthPoints or imageData null, or a
\* null depth point): convertDepthTo3D throws after updateTrajectory ran
SLAMProcessFrameThrowsWithin(motion, budget, cap) ==
    /\ calls < budget
    /\ \E movement \in EstimateCameraMovement(motion),
          trajConf \in TrajectoryConfidences :
          LET u == UpdateTrajectory(trajectory, lastPosition, movement, trajConf,
                                    now, cap)
          IN  /\ trajectory' = u.trajectory
              /\ lastPosition' = u.lastPosition
              /\ applied' = Apply(movement)
    /\ calls' = calls + 1
    /\ last' = LastOp("processFrame", NoBatch, motion, TRUE)
    /\ UNCHANGED <<now, mapPoints, landmarks>>

SLAMProcessFrameThrows(motion) ==
    SLAMProcessFrameThrowsWithin(motion, MaxCalls, TrajectoryCap)

\* variant of SLAMResetMap that leaves the camera where it is
SLAMResetMapKeepsPose ==
    /\ last.op # "resetMap"
    /\ mapPoints' = <<>>
    /\ landmarks' = <<>>
    /\ trajectory' = EmptyTrajectory
    /\ last' = LastOp("resetMap", NoBatch, NoMotion, FALSE)
    /\ applied' = NothingApplied
    /\ UNCHANGED <<now, calls, lastPosition>>

\* resetMap
SLAMResetMap ==
    /\ last.op # "resetMap"
    /\ mapPoints' = <<>>
    /\ landmarks' = <<>>
    /\ trajectory' = EmptyTrajectory
    /\ lastPosition' = <<0, 0, 0>>
    /\ last' = LastOp("resetMap", NoBatch, NoMotion, FALSE)
    /\ applied' = NothingApplied
    /\ UNCHANGED <<now, calls>>

----------------------------------------------------------------------------
(* useMapping: the hook around the engine *)

\* state.error: null, or a string (held in a 1-tuple)
Null == <<>>
ErrorString(message) == <<message>>

\* what convertDepthTo3D throws on a malformed input
Thrown == {[isError |-> TRUE, message |-> "depthPoints is not iterable"]}

\* error instanceof Error ? error.message : 'Erro no processamento SLAM'
ErrorMessage(error) ==
    IF error.isError THEN error.message ELSE "Erro no processamento SLAM"

\* performance.now() - startTime of one processFrame, ms
ProcessingTimes == {4}
\* 0.8 + Math.random() * 0.2 of the state's copies of the map points
StatePointConfidences == {90}
\* Array(10).fill(0).map(() => Math.random()), in hundredths
StateLandmarkFeatures == {[i \in 1 .. 10 |-> 50]}

EmptyMap == [points |-> <<>>, landmarks |-> <<>>, boundaries |-> <<>>]

EmptyStatistics ==
    [totalPoints |-> 0, totalLandmarks |-> 0, mappedArea |-> 0,
     processingTime |-> 0, accuracy |-> 0]

\* useState's initial value.  state.trajectory is "own" while it is the
\* hook's own empty literal and "engine" once it is the object getTrajectory
\* returned, which the engine goes on mutating in place.
InitialState ==
    [isActive |-> FALSE, isProcessing |-> FALSE, currentMap |-> EmptyMap,
     trajectory |-> "own", landmarks |-> <<>>, mapPoints |-> <<>>,
     statistics |-> EmptyStatistics, error |-> Null]

\* what state.trajectory shows
StateTrajectory(st) ==
    IF st.trajectory = "engine" THEN trajectory ELSE EmptyTrajectory

\* the state the callbacks close over: between them their dependency lists
\* name every field read (exportMap depends on the whole state)
Closure(st) == st

\* nothing exported or read yet
NoExport == [call |-> "none", value |-> <<>>]

\* updateState: {...prev, ...updates}
UpdateState(prev, updates) ==
    [k \in DOMAIN prev |-> IF k \in DOMAIN updates THEN updates[k] ELSE prev[k]]

\* Math.round(a / b) for a >= 0, b > 0
MathRound(a, b) == (2 * a + b) \div (2 * b)

\* calculateStatistics; mappedArea and accuracy in hundredths
CalculateStatistics(map, processingTime) ==
    LET totalPoints == Len(map.points)
        totalLandmarks == Len(map.landmarks)
        xs == [i \in 1 .. totalPoints |-> map.points[i].x]
        zs == [i \in 1 .. totalPoints |-> map.points[i].z]
        mappedArea == IF totalPoints > 0
                      THEN (SeqMax(xs) - SeqMin(xs)) * (SeqMax(zs) - SeqMin(zs))
                      ELSE 0
        confidences == [i \in 1 .. totalLandmarks |-> map.landmarks[i].confidence]
    IN  [totalPoints |-> totalPoints,
         totalLandmarks |-> totalLandmarks,
         mappedArea |-> MathRound(mappedArea, 1000000),
         processingTime |-> processingTime,
         accuracy |-> IF totalLandmarks > 0
                      THEN MathRound(SeqSum(confidences), totalLandmarks)
                      ELSE 0]

\* variant of ProcessFrameCatch that records the error only
ProcessFrameCatchStillProcessing(st, error) ==
    UpdateState(st, [error |-> ErrorString(ErrorMessage(error))])

\* the catch block of processFrame: its update of the state
ProcessFrameCatch(st, error) ==
    UpdateState(st, [isProcessing |-> FALSE,
                     error |-> ErrorString(ErrorMessage(error))])

\* motionVectorRef.current || undefined
MotionArgument == motionVectorRef

HookInit ==
    /\ state = InitialState
    /\ captured = Closure(InitialState)
    /\ motionVectorRef = NoMotion
    /\ performanceRef = [frameCount |-> 0, totalProcessingTime |-> 0, startTime |-> 0]
    /\ returned = EmptyMap
    /\ exported = NoExport

\* the component renders again and its callers pick up the new callbacks
Render ==
    /\ captured # Closure(state)
    /\ captured' = Closure(state)
    /\ UNCHANGED <<analysisVars, exported, engineVars, state, motionVectorRef, performanceRef, returned>>

\* startMapping
StartMapping ==
    /\ ~captured.isActive
    /\ state' = UpdateState(state, [isActive |-> TRUE, error |-> Null])
    /\ performanceRef' = [frameCount |-> 0, totalProcessingTime |-> 0,
                          startTime |-> now]
    /\ UNCHANGED <<analysisVars, exported, engineVars, captured, motionVectorRef, returned>>

\* variant of StopMapping that also empties the engine's map
StopMappingClearingMap ==
    /\ state' = UpdateState(state, [isActive |-> FALSE, isProcessing |-> FALSE])
    /\ mapPoints' = <<>>
    /\ UNCHANGED <<analysisVars, exported, now, landmarks, trajectory, lastPosition,
                   calls, last, applied, captured, motionVectorRef, performanceRef, returned>>

\* stopMapping
StopMapping ==
    /\ state' = UpdateState(state, [isActive |-> FALSE, isProcessing |-> FALSE])
    /\ UNCHANGED <<analysisVars, exported, engineVars, captured, motionVectorRef, performanceRef, returned>>

\* setMotionVector
SetMotionVector(motion) ==
    /\ motionVectorRef # motion
    /\ motionVectorRef' = motion
    /\ UNCHANGED <<analysisVars, exported, engineVars, state, captured, performanceRef, returned>>

\* processFrame called while the callback sees the hook inactive
UseMappingProcessFrameInactive ==
    /\ ~captured.isActive
    /\ returned' = captured.currentMap
    /\ UNCHANGED <<analysisVars, exported, engineVars, state, captured, motionVectorRef, performanceRef>>

\* processFrame, the engine returning its snapshot
UseMappingProcessFrame(b) ==
    /\ captured.isActive
    /\ SLAMProcessFrame(b, MotionArgument)
    /\ \E processingTime \in ProcessingTimes,
          confidence \in StatePointConfidences,
          features \in StateLandmarkFeatures,
          map \in {GetCurrentMap(mapPoints', landmarks', lastPosition')} :
          LET started == UpdateState(state, [isProcessing |-> TRUE, error |-> Null])
              stateLandmarks ==
                  [i \in 1 .. Len(map.landmarks) |->
                      [id |-> map.landmarks[i].id,
                       position |-> map.landmarks[i].position,
                       type |-> map.landmarks[i].type,
                       confidence |-> map.landmarks[i].confidence,
                       description |-> <<"Landmark ", map.landmarks[i].type>>,
                       features |-> features]]
              stateMapPoints ==
                  [i \in 1 .. Len(map.points) |->
                      [x |-> map.points[i].x, y |-> map.points[i].y,
                       z |-> map.points[i].z, color |-> map.points[i].color,
                       confidence |-> confidence, timestamp |-> now]]
          IN  /\ performanceRef' =
                    [performanceRef EXCEPT
                        !.frameCount = @ + 1,
                        !.totalProcessingTime = @ + processingTime]
              /\ state' = UpdateState(started,
                    [isProcessing |-> FALSE,
                     currentMap |-> map,
                     trajectory |-> "engine",
                     landmarks |-> stateLandmarks,
                     mapPoints |-> stateMapPoints,
                     statistics |-> CalculateStatistics(map, processingTime)])
              /\ returned' = map
    /\ UNCHANGED <<analysisVars, exported, captured, motionVectorRef>>

\* processFrame, the engine throwing
UseMappingProcessFrameThrows(error) ==
    /\ captured.isActive
    /\ SLAMProcessFrameThrows(MotionArgument)
    /\ LET started == UpdateState(state, [isProcessing |-> TRUE, error |-> Null])
       IN  state' = ProcessFrameCatch(started, error)
    /\ returned' = captured.currentMap
    /\ UNCHANGED <<analysisVars, exported, captured, motionVectorRef, performanceRef>>

\* resetMap
UseMappingResetMap ==
    /\ SLAMResetMap
    /\ state' = UpdateState(state,
          [currentMap |-> EmptyMap, trajectory |-> "own", landmarks |-> <<>>,
           mapPoints |-> <<>>, statistics |-> EmptyStatistics, error |-> Null])
    /\ performanceRef' = [frameCount |-> 0, totalProcessingTime |-> 0,
                          startTime |-> now]
    /\ UNCHANGED <<analysisVars, exported, captured, motionVectorRef, returned>>

\* optimizeMap of the hook: the engine's snapshot and its statistics
UseMappingOptimizeMap ==
    /\ LET currentMap == GetCurrentMap(mapPoints, landmarks, lastPosition)
       IN  state' = UpdateState(state,
              [currentMap |-> currentMap,
               statistics |-> CalculateStatistics(currentMap, 0)])
    /\ UNCHANGED <<analysisVars, exported, engineVars, captured, motionVectorRef, performanceRef, returned>>

\* exportMap: sessionInfo, map, trajectory and statistics of the object it
\* returns.  averageSpeed is totalDistance / (sessionDuration / 1000), kept
\* as its two operands: the duration is 0 when no time has passed.
ExportMap ==
    /\ LET sessionDuration == now - performanceRef.startTime
           shown == StateTrajectory(captured)
       IN  exported' =
              [call |-> "exportMap",
               value |->
                  [sessionInfo |->
                      [duration |-> sessionDuration,
                       frameCount |-> performanceRef.frameCount,
                       avgProcessingTime |->
                          IF performanceRef.frameCount > 0
                          THEN MathRound(performanceRef.totalProcessingTime,
                                         performanceRef.frameCount)
                          ELSE 0],
                   map |-> captured.currentMap,
                   trajectory |->
                      [points |-> shown.points,
                       totalDistance |-> shown.totalDistance,
                       totalTime |-> sessionDuration,
                       averageSpeed |-> <<shown.totalDistance, sessionDuration>>],
                   statistics |-> captured.statistics]]
    /\ UNCHANGED <<analysisVars, engineVars, state, captured, motionVectorRef,
                   performanceRef, returned>>

\* getTrajectory
GetTrajectory ==
    /\ exported' = [call |-> "getTrajectory", value |-> StateTrajectory(captured)]
    /\ UNCHANGED <<analysisVars, engineVars, state, captured, motionVectorRef,
                   performanceRef, returned>>

\* getLandmarks
GetLandmarks ==
    /\ exported' = [call |-> "getLandmarks", value |-> captured.landmarks]
    /\ UNCHANGED <<analysisVars, engineVars, state, captured, motionVectorRef,
                   performanceRef, returned>>

\* getMapPoints
GetMapPoints ==
    /\ exported' = [call |-> "getMapPoints", value |-> captured.mapPoints]
    /\ UNCHANGED <<analysisVars, engineVars, state, captured, motionVectorRef,
                   performanceRef, returned>>

----------------------------------------------------------------------------
(* trackObjects of useAIDetection, applied frame after frame *)

\* distance < 100, px
TrackingTolerance == 100

\* DetectedObject.  The id of a fresh detection is obj_<Date.now()>_<i>:
\* the time is that of its frame, and two detections that return objects
\* are at least processInterval apart, so it differs from frame to frame.
DetectedObject(frame, i, d) ==
    [id |-> <<"obj", frame, i>>,
     label |-> d.label,
     confidence |-> d.confidence,
     bbox |-> [x |-> d.center[1] - 20, y |-> d.center[2] - 30,
               width |-> 40, height |-> 60],
     center |-> [x |-> d.center[1], y |-> d.center[2]],
     area |-> 40 * 60,
     timestamp |-> frame]

\* what a frame can show: a label at a place
Detectable ==
    { [label |-> "pessoa", center |-> <<100, 100>>, confidence |-> 90],
      [label |-> "pessoa", center |-> <<150, 140>>, confidence |-> 80],
      [label |-> "pessoa", center |-> <<160, 180>>, confidence |-> 85],
      [label |-> "carro",  center |-> <<150, 140>>, confidence |-> 75],
      [label |-> "pessoa", center |-> <<400, 400>>, confidence |-> 95] }

\* the detections of one frame: none, one, or two different objects
DetectionLists ==
    {<<>>} \cup {<<d>> : d \in Detectable}
           \cup {p \in Detectable \X Detectable : p[1] # p[2]}

NewObjects(frame, ds) == [i \in 1 .. Len(ds) |-> DetectedObject(frame, i - 1, ds[i])]

\* Math.sqrt(dx^2 + dy^2) < 100, squared
CenterDistanceSq(a, b) ==
    (a.center.x - b.center.x) * (a.center.x - b.center.x)
    + (a.center.y - b.center.y) * (a.center.y - b.center.y)

\* variant of IsSimilar whose tolerance includes the distance 100 itself
IsSimilarInclusive(oldObj, newObj) ==
    /\ oldObj.label = newObj.label
    /\ CenterDistanceSq(newObj, oldObj) <= TrackingTolerance * TrackingTolerance

\* the predicate of previousObjects.find
IsSimilar(oldObj, newObj) ==
    /\ oldObj.label = newObj.label
    /\ CenterDistanceSq(newObj, oldObj) < TrackingTolerance * TrackingTolerance

\* previousObjects.find(...): the index of the first similar object, 0 for
\* undefined
FindSimilar(previousObjects, newObj) ==
    LET found == {i \in 1 .. Len(previousObjects) :
                     IsSimilar(previousObjects[i], newObj)}
    IN  IF found = {} THEN 0
        ELSE CHOOSE i \in found : \A j \in found : i <= j

\* variant of TrackObjects that carries the previous object itself over
TrackObjectsCarryingPrevious(newObjects, previousObjects, tracking) ==
    IF ~tracking \/ Len(previousObjects) = 0 THEN newObjects
    ELSE [k \in 1 .. Len(newObjects) |->
            LET similar == FindSimilar(previousObjects, newObjects[k])
            IN  IF similar # 0 THEN previousObjects[similar] ELSE newObjects[k]]

\* trackObjects
TrackObjects(newObjects, previousObjects, tracking) ==
    IF ~tracking \/ Len(previousObjects) = 0 THEN newObjects
    ELSE [k \in 1 .. Len(newObjects) |->
            LET similar == FindSimilar(previousObjects, newObjects[k])
            IN  IF similar # 0
                THEN [newObjects[k] EXCEPT !.id = previousObjects[similar].id]
                ELSE newObjects[k]]

NoTracking ==
    [previousObjects |-> <<>>, newObjects |-> <<>>, trackedObjects |-> <<>>]

TrackerIdle ==
    /\ enableTracking = TRUE
    /\ frames = 0
    /\ tracked = NoTracking

TrackerInit ==
    /\ enableTracking \in BOOLEAN
    /\ frames = 0
    /\ tracked = NoTracking

\* one frame: its detections are tracked against the objects of the frame
\* before, and the result is what the next frame is tracked against
TrackFrame(ds) ==
    /\ frames < MaxFrames
    /\ frames' = frames + 1
    /\ LET newObjects == NewObjects(frames + 1, ds)
           previousObjects == tracked.trackedObjects
       IN  tracked' = [previousObjects |-> previousObjects,
                       newObjects |-> newObjects,
                       trackedObjects |-> TrackObjects(newObjects, previousObjects,
                                                       enableTracking)]
    /\ UNCHANGED <<enableTracking, detectorVars, sessionVars, engineVars, hookVars, morphVars, enhancerVars>>

\* the detector is cleared between two sessions: the next frame has nothing
\* to be tracked against
ClearObjects ==
    /\ tracked.trackedObjects # <<>>
    /\ tracked' = NoTracking
    /\ UNCHANGED <<enableTracking, frames, detectorVars, sessionVars, engineVars, hookVars, morphVars,
                   enhancerVars>>

----------------------------------------------------------------------------
(* Analysis3D.analyzeMorphology.  Bounding boxes and sample positions in   *)
(* px, depths in hundredths, the lengths of the result in mm               *)
(* (pixelToMeterRatio = 0.001), its area in mm^2 and its volume in mm^3;   *)
(* complexity and symmetry are fractions <<numerator, denominator>> of     *)
(* hundredths, in lowest terms.                                            *)

RECURSIVE GCD(_, _)
GCD(a, b) == IF b = 0 THEN a ELSE GCD(b, a % b)

\* the fraction n / d (n >= 0, d > 0) in lowest terms
Fraction(n, d) == LET g == GCD(n, d) IN <<n \div g, d \div g>>

\* the number 0 of a complexity or a symmetry
Zero == Fraction(0, 1)

\* the objects handed to analyzeMorphology: an id and a bounding box
MorphologyObjects ==
    { [id |-> "obj_square", bbox |-> [x |-> 10, y |-> 10, width |-> 20, height |-> 20]],
      [id |-> "obj_wide",   bbox |-> [x |-> 10, y |-> 10, width |-> 40, height |-> 20]],
      [id |-> "obj_tall",   bbox |-> [x |-> 10, y |-> 10, width |-> 10, height |-> 20]],
      [id |-> "obj_point",  bbox |-> [x |-> 10, y |-> 10, width |-> 0,  height |-> 0]] }

\* the depth samples: on a corner of every box, on the far corner of the
\* square one, below the boxes, and outside them on both axes
MorphologySamples ==
    { [x |-> 10, y |-> 10, depth |-> 50, confidence |-> 90],
      [x |-> 30, y |-> 30, depth |-> 80, confidence |-> 70],
      [x |-> 20, y |-> 35, depth |-> 20, confidence |-> 80],
      [x |-> 5,  y |-> 5,  depth |-> 95, confidence |-> 60] }

\* the depth-sample lists, of up to MaxSamples samples
MorphologySampleLists ==
    UNION {[1 .. n -> MorphologySamples] : n \in 0 .. MaxSamples}

\* variant of InBBox that tests the horizontal extent only
InBBoxHorizontally(point, bbox) ==
    point.x >= bbox.x /\ point.x <= bbox.x + bbox.width

\* the predicate of depthPoints.filter in analyzeMorphology
InBBox(point, bbox) ==
    /\ point.x >= bbox.x /\ point.x <= bbox.x + bbox.width
    /\ point.y >= bbox.y /\ point.y <= bbox.y + bbox.height

\* createDefaultMorphologyAnalysis
CreateDefaultMorphologyAnalysis(object) ==
    [objectId |-> object.id,
     volume |-> 0,
     surfaceArea |-> 0,
     dimensions |-> [width |-> 0, height |-> 0, depth |-> 0],
     shape |-> "indefinido",
     complexity |-> Zero,
     symmetry |-> Zero]

Depths(depthPoints) == [i \in 1 .. Len(depthPoints) |-> depthPoints[i].depth]

\* calculateDepthVariation, hundredths
CalculateDepthVariation(depthPoints) ==
    IF Len(depthPoints) < 2 THEN 0
    ELSE SeqMax(Depths(depthPoints)) - SeqMin(Depths(depthPoints))

\* classifyShape: aspectRatio = width / height is Infinity for a flat box
\* of positive width and NaN for a box of no extent, which fails both
\* comparisons
ClassifyShape(bbox, depthPoints) ==
    LET depthVariation == CalculateDepthVariation(depthPoints)
        above15 == IF bbox.height = 0 THEN bbox.width > 0
                   ELSE 10 * bbox.width > 15 * bbox.height
        below07 == IF bbox.height = 0 THEN FALSE
                   ELSE 10 * bbox.width < 7 * bbox.height
    IN  IF above15 THEN "retangular"
        ELSE IF below07 THEN "vertical"
        ELSE IF depthVariation < 10 THEN "plano"
        ELSE IF depthVariation > 50 THEN "irregular"
        ELSE "cúbico"

\* calculateComplexity of Analysis3D: Math.min(1, sum of |diff| / length)
CalculateComplexity(depthPoints) ==
    IF Len(depthPoints) < 2 THEN Zero
    ELSE LET diffs == [i \in 1 .. Len(depthPoints) - 1 |->
                          Abs(depthPoints[i + 1].depth - depthPoints[i].depth)]
             complexity == SeqSum(diffs)
         IN  IF complexity >= 100 * Len(depthPoints) THEN Fraction(100, 1)
             ELSE Fraction(complexity, Len(depthPoints))

\* calculateSymmetry: Math.max(0, 1 - |leftAvgDepth - rightAvgDepth|);
\* centerX = bbox.x + bbox.width / 2, compared doubled
CalculateSymmetry(depthPoints, bbox) ==
    LET centerX2 == 2 * bbox.x + bbox.width
        leftPoints == SelectSeq(depthPoints, LAMBDA p : 2 * p.x < centerX2)
        rightPoints == SelectSeq(depthPoints, LAMBDA p : 2 * p.x > centerX2)
        nl == Len(leftPoints)
        nr == Len(rightPoints)
        gap == Abs(SeqSum(Depths(leftPoints)) * nr - SeqSum(Depths(rightPoints)) * nl)
    IN  IF nl = 0 \/ nr = 0 THEN Zero
        ELSE IF gap >= 100 * nl * nr THEN Zero
        ELSE Fraction(100 * nl * nr - gap, nl * nr)

\* analyzeMorphology
AnalyzeMorphology(object, depthPoints) ==
    LET bbox == object.bbox
        objectDepthPoints == SelectSeq(depthPoints, LAMBDA p : InBBox(p, bbox))
    IN  IF Len(objectDepthPoints) = 0
        THEN CreateDefaultMorphologyAnalysis(object)
        ELSE LET depths == Depths(objectDepthPoints)
                 width3D == bbox.width
                 height3D == bbox.height
                 \* (maxDepth - minDepth) * 2 hundredths of a metre, in mm
                 depth3D == (SeqMax(depths) - SeqMin(depths)) * 2 * 10
             IN  [objectId |-> object.id,
                  volume |-> width3D * height3D * depth3D,
                  surfaceArea |-> 2 * (width3D * height3D + width3D * depth3D
                                       + height3D * depth3D),
                  dimensions |-> [width |-> width3D, height |-> height3D,
                                  depth |-> depth3D],
                  shape |-> ClassifyShape(bbox, objectDepthPoints),
                  complexity |-> CalculateComplexity(objectDepthPoints),
                  symmetry |-> CalculateSymmetry(objectDepthPoints, bbox)]

MorphIdle ==
    /\ morphObject = CHOOSE o \in MorphologyObjects : o.id = "obj_square"
    /\ morphSamples = <<>>
    /\ morphResults = <<>>

MorphInit ==
    /\ morphObject \in MorphologyObjects
    /\ morphSamples \in MorphologySampleLists
    /\ morphResults = <<>>

\* one more call of analyzeMorphology on the object and the samples
AnalyzeMorphologyCall ==
    /\ Len(morphResults) < MaxAnalyses
    /\ morphResults' = Append(morphResults, AnalyzeMorphology(morphObject, morphSamples))
    /\ UNCHANGED <<morphObject, morphSamples, detectorVars, sessionVars, engineVars, hookVars, trackerVars,
                   enhancerVars>>

----------------------------------------------------------------------------
(* Analysis3D.enhanceNightVision and the ImageProcessor.  A frame is       *)
(* [width, height, data], data the pixels <<r, g, b, a>> row by row.       *)
(* Settings are in tenths (brightness 1.5 is 15).  The arithmetic is that  *)
(* of the source over the rationals, each store into the Uint8ClampedArray *)
(* clamping to 0 .. 255 and rounding to the nearest integer, ties to even. *)
(* A double can fall just short of a whole number the rationals reach      *)
(* (0.299 k + 0.587 k + 0.114 k for a grey k), which moves a Math.floor by *)
(* one; the colours of the model's frames keep clear of those values.      *)

\* the store of num / den (den > 0) into a Uint8ClampedArray
ToUint8Clamped(num, den) ==
    IF num <= 0 THEN 0
    ELSE IF num >= 255 * den THEN 255
    ELSE LET q == num \div den
             r == num % den
         IN  IF 2 * r < den THEN q
             ELSE IF 2 * r > den THEN q + 1
             ELSE IF q % 2 = 0 THEN q ELSE q + 1

RECURSIVE Pow(_, _)
Pow(b, e) == IF e = 0 THEN 1 ELSE b * Pow(b, e - 1)

\* the values a colour channel holds
Channel == 0 .. 255

\* the loop for (i = 0; i < data.length; i += 4) over data[i], data[i + 1]
\* and data[i + 2]: the frame with each pixel's r, g and b replaced by
\* table[r], table[g] and table[b]
MapChannels(frame, table) ==
    [frame EXCEPT !.data =
        [i \in 1 .. Len(frame.data) |->
            <<table[frame.data[i][1]], table[frame.data[i][2]],
              table[frame.data[i][3]], frame.data[i][4]>>]]

\* the column and the row (from 0) of the i-th pixel of the data
ColumnOf(frame, i) == (i - 1) % frame.width
RowOf(frame, i) == (i - 1) \div frame.width

\* the pixels the loops for (y = 1; y < height - 1) for (x = 1; x < width - 1)
\* visit
Interior(frame) ==
    {i \in 1 .. Len(frame.data) :
        /\ ColumnOf(frame, i) >= 1 /\ ColumnOf(frame, i) < frame.width - 1
        /\ RowOf(frame, i) >= 1 /\ RowOf(frame, i) < frame.height - 1}

\* the frame with the pixels off the border replaced by those of written,
\* the others as they were copied from the input
MapInterior(frame, written) ==
    [frame EXCEPT !.data =
        [i \in 1 .. Len(frame.data) |->
            IF i \in DOMAIN written THEN written[i] ELSE frame.data[i]]]

\* adjustBrightness: Math.min(255, data[i] * factor)
AdjustBrightness(frame, factor) ==
    MapChannels(frame,
        [v \in Channel |-> ToUint8Clamped(Min2(255 * 10, v * factor), 10)])

\* adjustContrast: contrast = (factor - 1) * 255 and
\* factorContrast = 259 * (contrast + 255) / (255 * (259 - contrast)),
\* which is 259 * factor / (5140 - 255 * factor) for factor in tenths
AdjustContrast(frame, factor) ==
    LET num == 259 * factor
        den == 5140 - 255 * factor
    IN  MapChannels(frame,
            [v \in Channel |-> ToUint8Clamped(num * (v - 128) + 128 * den, den)])

\* adjustGamma: 255 * Math.pow(data[i] / 255, 1 / gamma), for the gammas
\* whose inverse is a whole number
AdjustGamma(frame, gamma) ==
    LET gammaCorrection == 10 \div gamma
    IN  MapChannels(frame,
            [v \in Channel |->
                ToUint8Clamped(Pow(v, gammaCorrection), Pow(255, gammaCorrection - 1))])

Kernel == << <<1, 2, 1>>, <<2, 4, 2>>, <<1, 2, 1>> >>
KernelWeight == 16
SobelX == << <<-1, 0, 1>>, <<-2, 0, 2>>, <<-1, 0, 1>> >>
SobelY == << <<-1, -2, -1>>, <<0, 0, 0>>, <<1, 2, 1>> >>

\* the sum over the 3 x 3 neighbourhood of the i-th pixel of
\* value[pixel] * kernel, value the quantity convolved for each pixel
Convolve(frame, i, kernel, value) ==
    LET x == ColumnOf(frame, i)
        y == RowOf(frame, i)
        term(k) == LET ky == (k \div 3) - 1
                       kx == (k % 3) - 1
                   IN  value[(y + ky) * frame.width + x + kx + 1]
                       * kernel[ky + 2][kx + 2]
    IN  term(0) + term(1) + term(2) + term(3) + term(4) + term(5) + term(6)
        + term(7) + term(8)

\* the c-th channel of every pixel of the frame
ChannelPlane(frame, c) == [i \in 1 .. Len(frame.data) |-> frame.data[i][c]]

\* variant of DenoiseImage that blends at full strength whatever is asked
DenoiseImageAtFullStrength(frame, strength) ==
    MapInterior(frame, [i \in Interior(frame) |->
        LET p == frame.data[i]
            out(c) == ToUint8Clamped(Convolve(frame, i, Kernel, ChannelPlane(frame, c)),
                                     KernelWeight)
        IN  <<out(1), out(2), out(3), p[4]>>])

\* denoiseImage: data * (1 - strength) + sum / kernelWeight * strength
DenoiseImage(frame, strength) ==
    MapInterior(frame, [i \in Interior(frame) |->
        LET p == frame.data[i]
            out(c) == ToUint8Clamped(
                          KernelWeight * p[c] * (10 - strength)
                          + Convolve(frame, i, Kernel, ChannelPlane(frame, c)) * strength,
                          KernelWeight * 10)
        IN  <<out(1), out(2), out(3), p[4]>>])

\* 0.299 r + 0.587 g + 0.114 b, in thousandths
Luminance(p) == 299 * p[1] + 587 * p[2] + 114 * p[3]

\* a * a for 0 <= a < 10^8 as [hi, lo] with a * a = hi * 10^8 + lo
Square(a) ==
    LET a1 == a \div 10000
        a0 == a % 10000
        mid == 2 * a1 * a0
        low == (mid % 10000) * 10000 + a0 * a0
    IN  [hi |-> a1 * a1 + mid \div 10000 + low \div 100000000,
         lo |-> low % 100000000]

\* Math.min(255, v + magnitude * strength) stored, for the Sobel gradient
\* (gx, gy) in thousandths.  With t = (2 strength gx)^2 + (2 strength gy)^2
\* the addend strength / 10 * sqrt(gx^2 + gy^2) / 1000 is sqrt(t) / 20000,
\* whose nearest integer is (m + 1) div 2 for m = floor(sqrt(t) / 10000).
EdgeEnhanced(v, gx, gy, strength) ==
    LET sa == Square(2 * strength * Abs(gx))
        sb == Square(2 * strength * Abs(gy))
        lo == sa.lo + sb.lo
        hi == sa.hi + sb.hi + lo \div 100000000
        m == ISqrt(hi)
        k == (m + 1) \div 2
        tie == m % 2 = 1 /\ m * m = hi /\ lo % 100000000 = 0
    IN  IF tie
        THEN IF v + k - 1 >= 255 THEN 255
             ELSE IF (v + k) % 2 = 0 THEN v + k ELSE v + k - 1
        ELSE Min2(255, v + k)

\* enhanceEdges
EnhanceEdges(frame, strength) ==
    MapInterior(frame, [i \in Interior(frame) |->
        LET p == frame.data[i]
            gray == [j \in 1 .. Len(frame.data) |-> Luminance(frame.data[j])]
            gx == Convolve(frame, i, SobelX, gray)
            gy == Convolve(frame, i, SobelY, gray)
        IN  <<EdgeEnhanced(p[1], gx, gy, strength),
              EdgeEnhanced(p[2], gx, gy, strength),
              EdgeEnhanced(p[3], gx, gy, strength), p[4]>>])

\* applyThermalEffect, one pixel: normalized = gray / 255 with gray in
\* thousandths, each Math.floor taken exactly
ThermalPixel(p) ==
    LET gray == Luminance(p)
    IN  IF 4 * gray < 255000
        THEN <<0, (4 * gray) \div 2550, (650250 - 4 * gray) \div 2550, p[4]>>
        ELSE IF 2 * gray < 255000
        THEN <<0, (255 * 51000 - (4 * gray - 255000) * 31) \div 51000,
               (4 * gray - 255000) \div 1000, p[4]>>
        ELSE IF 4 * gray < 765000
        THEN <<(2 * gray - 255000) \div 500, 255, 0, p[4]>>
        ELSE <<255, (1020000 - 4 * gray) \div 1000, 0, p[4]>>

\* applyThermalEffect
ApplyThermalEffect(frame) ==
    [frame EXCEPT !.data = [i \in 1 .. Len(frame.data) |-> ThermalPixel(frame.data[i])]]

\* the colours of the model's frames
Dark == <<45, 70, 25, 255>>
Bright == <<250, 180, 90, 128>>
Mid == <<130, 120, 140, 255>>

\* the frames: 3 x 3, the corners of a middle colour, every other pixel dark
\* or bright
EnhancerFrames ==
    {[width |-> 3, height |-> 3,
      data |-> <<Mid, c[1], Mid, c[2], c[3], c[4], Mid, c[5], Mid>>] :
        c \in [1 .. 5 -> {Dark, Bright}]}

\* the settings: neutral or not, one by one
EnhancerSettings ==
    [brightness : {10, 15}, contrast : {10, 13}, gamma : {10, 5},
     noiseReduction : {0, 8}, edgeEnhancement : {0, 4}]

NeutralSettings ==
    [brightness |-> 10, contrast |-> 10, gamma |-> 10,
     noiseReduction |-> 0, edgeEnhancement |-> 0]

EnhancerIdle ==
    /\ enhInput = [width |-> 3, height |-> 3, data |-> [i \in 1 .. 9 |-> Mid]]
    /\ enhSettings = NeutralSettings
    /\ enhanced = enhInput
    /\ enhStage = "returned"

\* enhanceNightVision is entered: enhanced is a copy of the input
EnhancerInit ==
    /\ enhInput \in EnhancerFrames
    /\ enhSettings \in EnhancerSettings
    /\ enhanced = enhInput
    /\ enhStage = "copied"

\* one statement of enhanceNightVision
EnhancerStep(from, to, result) ==
    /\ enhStage = from
    /\ enhStage' = to
    /\ enhanced' = result
    /\ UNCHANGED <<enhInput, enhSettings, detectorVars, sessionVars, engineVars, hookVars, trackerVars,
                   morphVars>>

BrightnessStage ==
    EnhancerStep("copied", "brightness",
                 AdjustBrightness(enhanced, enhSettings.brightness))

ContrastStage ==
    EnhancerStep("brightness", "contrast",
                 AdjustContrast(enhanced, enhSettings.contrast))

GammaStage ==
    EnhancerStep("contrast", "gamma", AdjustGamma(enhanced, enhSettings.gamma))

DenoiseStage ==
    EnhancerStep("gamma", "denoise",
                 DenoiseImage(enhanced, enhSettings.noiseReduction))

EdgeStage ==
    EnhancerStep("denoise", "edges",
                 EnhanceEdges(enhanced, enhSettings.edgeEnhancement))

ThermalStage ==
    EnhancerStep("edges", "returned", ApplyThermalEffect(enhanced))

----------------------------------------------------------------------------
(* AIProcessor.detectObjects and its throttle.  Times are in ms; a call   *)
(* that detects is suspended on its 50 ms timer and resumes in a step of   *)
(* its own, so that other calls can arrive while it is in flight.          *)

\* processInterval
ProcessInterval == 100

\* setTimeout(resolve, 50)
DetectionDelay == 50

\* the clock advances in steps of 30 ms
DetectorTickMs == 3 * 10

\* Date.now() when the first call can arrive: long after time 0
DetectorEpoch == 10 * ProcessInterval

\* no call made yet
NoInvocation == [at |-> -1, previous |-> -1, worked |-> FALSE, returned |-> <<>>]

\* the promise of a call that is detecting
Pending == <<"pending">>

\* simulateObjectDetection at time t: two objects of the model's frames
SimulateObjectDetection(t) ==
    {NewObjects(t, ds) : ds \in {p \in DetectionLists : Len(p) = 2}}

\* new AIProcessor()
DetectorIdle ==
    /\ dateNow = DetectorEpoch
    /\ isProcessing = FALSE
    /\ lastProcessTime = 0
    /\ invocations = 0
    /\ invocation = NoInvocation
    /\ detected = <<>>

\* what a detection that threw leaves in place of its result
Rejected == <<"TypeError">>

\* time passes, ms at a time
DateNowAdvancesBy(ms) ==
    /\ dateNow + ms <= DetectorEpoch + MaxDetectorTicks * DetectorTickMs
    /\ dateNow' = dateNow + ms
    /\ UNCHANGED <<isProcessing, lastProcessTime, invocations, invocation, detected>>

DateNowAdvances == DateNowAdvancesBy(DetectorTickMs)

\* the guard of detectObjects
Throttled == isProcessing \/ dateNow - lastProcessTime < ProcessInterval

\* variant of DetectObjectsAtGuard in which a call that is turned away
\* restarts the interval
DetectObjectsAtGuardStampingTime ==
    /\ invocations < MaxInvocations
    /\ Throttled
    /\ lastProcessTime' = dateNow
    /\ invocations' = invocations + 1
    /\ invocation' = [at |-> dateNow, previous |-> invocation.at,
                      worked |-> FALSE, returned |-> <<>>]
    /\ UNCHANGED <<dateNow, isProcessing, detected>>

\* detectObjects returning [] at its guard
DetectObjectsAtGuard ==
    /\ invocations < MaxInvocations
    /\ Throttled
    /\ invocations' = invocations + 1
    /\ invocation' = [at |-> dateNow, previous |-> invocation.at,
                      worked |-> FALSE, returned |-> <<>>]
    /\ UNCHANGED <<dateNow, isProcessing, lastProcessTime, detected>>

\* detectObjects passing its guard, up to the await of the timer
DetectObjectsToTimer ==
    /\ invocations < MaxInvocations
    /\ ~Throttled
    /\ isProcessing' = TRUE
    /\ lastProcessTime' = dateNow
    /\ invocations' = invocations + 1
    /\ invocation' = [at |-> dateNow, previous |-> invocation.at,
                      worked |-> TRUE, returned |-> Pending]
    /\ UNCHANGED <<dateNow, detected>>

\* the timer fired: simulateObjectDetection, return, finally
DetectObjectsFromTimer(objects) ==
    /\ isProcessing
    /\ dateNow - lastProcessTime >= DetectionDelay
    /\ objects \in SimulateObjectDetection(dateNow)
    /\ detected' = objects
    /\ isProcessing' = FALSE
    /\ UNCHANGED <<dateNow, lastProcessTime, invocations, invocation>>

\* the timer fired and simulateObjectDetection threw, its imageData being
\* null: nothing is returned, finally
DetectObjectsThrowsFromTimer ==
    /\ isProcessing
    /\ dateNow - lastProcessTime >= DetectionDelay
    /\ detected' = Rejected
    /\ isProcessing' = FALSE
    /\ UNCHANGED <<dateNow, lastProcessTime, invocations, invocation>>

\* the detector called directly
detectorFrame == <<engineVars, hookVars, trackerVars, morphVars, enhancerVars, sessionVars>>

DetectorTick == DateNowAdvances /\ UNCHANGED detectorFrame

DetectObjectsSkipped == DetectObjectsAtGuard /\ UNCHANGED detectorFrame

DetectObjectsStart == DetectObjectsToTimer /\ UNCHANGED detectorFrame

DetectObjectsResume ==
    /\ \E objects \in SimulateObjectDetection(dateNow) : DetectObjectsFromTimer(objects)
    /\ UNCHANGED detectorFrame

DetectObjectsThrows == DetectObjectsThrowsFromTimer /\ UNCHANGED detectorFrame

----------------------------------------------------------------------------
(* useCamera and its CameraManager.  A stream is the number of the         *)
(* getUserMedia call that opened it, 0 for null; the manager stops the     *)
(* tracks of a stream when it lets go of it, so the stream it holds is     *)
(* live.  initialize is suspended on the getUserMedia of initializeCamera  *)
(* and resumes in a step of its own.                                       *)

\* null, for a stream
NoStream == 0

\* null, for currentCamera
NoCamera == "none"

\* the cameras switchCamera is called with
DeviceIds == {"front", "back"}

\* no initialize awaits getUserMedia
NoInitialize == [active |-> FALSE, switchingTo |-> NoCamera]

\* the hook mounted, its effect run: state as in useState, a CameraManager
CameraIdle ==
    /\ cameraState = [isInitialized |-> FALSE, isActive |-> FALSE,
                      hasPermission |-> FALSE, isLoading |-> FALSE,
                      error |-> FALSE, stream |-> NoStream,
                      currentCamera |-> NoCamera]
    /\ cameraCaptured = [isInitialized |-> FALSE, hasPermission |-> FALSE]
    /\ cameraManager = [stream |-> NoStream, opened |-> 0]
    /\ cameraPending = NoInitialize

\* what the camera's actions leave alone
cameraFrame ==
    <<engineVars, hookVars, trackerVars, morphVars, enhancerVars, detectorVars,
      detectionVars>>

\* a render of the component: the callbacks close over the state of now
UseCameraRender ==
    /\ cameraCaptured # [isInitialized |-> cameraState.isInitialized,
                         hasPermission |-> cameraState.hasPermission]
    /\ cameraCaptured' = [isInitialized |-> cameraState.isInitialized,
                          hasPermission |-> cameraState.hasPermission]
    /\ UNCHANGED <<cameraState, cameraManager, cameraPending, cameraFrame>>

\* CameraManager.stopCamera
ManagerStopCamera(manager) == [manager EXCEPT !.stream = NoStream]

\* the updates of stopCamera of the hook
StateStopCamera(st) == [st EXCEPT !.isActive = FALSE, !.stream = NoStream]

\* initialize from a state st up to the await of getUserMedia in
\* initializeCamera, or to its catch when the permission asked for is denied
InitializeFrom(st, switchingTo) ==
    /\ ~cameraPending.active
    /\ cameraManager.opened < MaxStreams
    /\ \E granted \in BOOLEAN :
          IF cameraCaptured.hasPermission
          THEN /\ granted
               /\ cameraState' = [st EXCEPT !.isLoading = TRUE, !.error = FALSE]
               /\ cameraManager' = ManagerStopCamera(cameraManager)
               /\ cameraPending' = [active |-> TRUE, switchingTo |-> switchingTo]
          ELSE IF granted
          THEN /\ cameraState' = [st EXCEPT !.hasPermission = TRUE,
                                            !.isLoading = FALSE,
                                            !.error = FALSE]
               /\ cameraManager' = ManagerStopCamera(cameraManager)
               /\ cameraPending' = [active |-> TRUE, switchingTo |-> switchingTo]
          ELSE /\ cameraState' = [st EXCEPT !.hasPermission = FALSE,
                                            !.isInitialized = FALSE,
                                            !.isActive = FALSE,
                                            !.isLoading = FALSE,
                                            !.error = TRUE]
               /\ UNCHANGED <<cameraManager, cameraPending>>
    /\ UNCHANGED <<cameraCaptured, cameraFrame>>

\* initialize
Initialize == InitializeFrom(cameraState, NoCamera)

\* getUserMedia resolved: the rest of initializeCamera and of initialize,
\* and of the switchCamera that called it
InitializeResolves ==
    /\ cameraPending.active
    /\ cameraManager' = [stream |-> cameraManager.opened + 1,
                         opened |-> cameraManager.opened + 1]
    /\ cameraState' =
          [cameraState EXCEPT !.isInitialized = TRUE,
                              !.isActive = TRUE,
                              !.isLoading = FALSE,
                              !.stream = cameraManager.opened + 1,
                              !.currentCamera =
                                  IF cameraPending.switchingTo # NoCamera
                                  THEN cameraPending.switchingTo ELSE @]
    /\ cameraPending' = NoInitialize
    /\ UNCHANGED <<cameraCaptured, cameraFrame>>

\* getUserMedia rejected: the catch of initializeCamera, that of initialize
InitializeRejects ==
    /\ cameraPending.active
    /\ cameraState' = [cameraState EXCEPT !.isInitialized = FALSE,
                                          !.isActive = FALSE,
                                          !.isLoading = FALSE,
                                          !.error = TRUE]
    /\ cameraPending' = NoInitialize
    /\ UNCHANGED <<cameraManager, cameraCaptured, cameraFrame>>

\* startCamera on a hook that is not initialized: initialize()
StartCameraInitializes ==
    /\ ~cameraCaptured.isInitialized
    /\ InitializeFrom(cameraState, NoCamera)

\* startCamera on a hook that is initialized
StartCamera ==
    /\ cameraCaptured.isInitialized
    /\ cameraState' = [cameraState EXCEPT !.isActive = TRUE, !.error = FALSE]
    /\ UNCHANGED <<cameraManager, cameraCaptured, cameraPending, cameraFrame>>

\* stopCamera
StopCamera ==
    /\ cameraManager' = ManagerStopCamera(cameraManager)
    /\ cameraState' = StateStopCamera(cameraState)
    /\ UNCHANGED <<cameraCaptured, cameraPending, cameraFrame>>

\* switchCamera up to the await in the initialize it calls
SwitchCamera(deviceId) ==
    InitializeFrom(StateStopCamera(cameraState), deviceId)

----------------------------------------------------------------------------
(* useAIDetection: processFrame, setConfidenceThreshold, and the renders   *)
(* that give them their closures.  Confidences and thresholds are in       *)
(* hundredths.  The component calls useAIDetection() without options, so   *)
(* the config of a render is a new copy of defaultOptions.  processFrame   *)
(* is memoised on state.objects and closes over the config of the render   *)
(* that made it; setConfidenceThreshold is memoised on config, so it is    *)
(* made anew by every render and closes over that render's config.         *)

\* defaultOptions.confidenceThreshold
DefaultConfidenceThreshold == 50

\* defaultOptions.maxObjects
MaxObjects == 20

\* the thresholds setConfidenceThreshold is called with: below 0, inside
\* [0, 1], above 1
ThresholdInputs == {0 - 20, 80, 130}

\* Math.max(0, Math.min(1, threshold))
ClampThreshold(threshold) ==
    IF threshold < 0 THEN 0 ELSE IF threshold > 100 THEN 100 ELSE threshold

\* .filter(obj => obj.confidence >= config.confidenceThreshold)
FilterByConfidence(objects, threshold) ==
    SelectSeq(objects, LAMBDA obj : obj.confidence >= threshold)

\* .slice(0, config.maxObjects)
SliceToMaxObjects(objects) ==
    SubSeq(objects, 1, IF Len(objects) < MaxObjects THEN Len(objects) ELSE MaxObjects)

\* what the frames given to the hook show: a person that moves less than
\* 100 px between two frames, and a parked car
SceneDetections(t) ==
    {objects \in SimulateObjectDetection(t) :
        /\ objects[1].label = "pessoa"
        /\ objects[1].center.x < 160
        /\ objects[2].label = "carro"}

\* no processFrame awaits detectObjects
NoPending ==
    [active |-> FALSE, objects |-> <<>>, threshold |-> DefaultConfidenceThreshold,
     linked |-> FALSE, fresh |-> FALSE]

\* the hook mounted, its effect run: state as in useState, an AIProcessor
DetectionIdle ==
    /\ aiState = [isProcessing |-> FALSE, objects |-> <<>>, error |-> FALSE]
    /\ aiClosure = [objects |-> <<>>,
                    threshold |-> DefaultConfidenceThreshold,
                    latest |-> DefaultConfidenceThreshold,
                    same |-> TRUE,
                    behind |-> "no"]
    /\ aiPending = NoPending
    /\ aiReturned = [by |-> "none", objects |-> <<>>]
    /\ aiHistory = [requested |-> 0 - 1, tracked |-> <<>>, since |-> "nothing"]

\* what the hook's actions leave alone
detectionFrame ==
    <<engineVars, hookVars, trackerVars, morphVars, enhancerVars, cameraVars>>

\* a render of the component: a new config; a new processFrame if
\* state.objects was replaced, and then it closes over the new config
UseAIDetectionRender ==
    /\ aiClosure.behind # "no"
    /\ aiClosure' = IF aiClosure.behind = "objects"
                    THEN [objects |-> aiState.objects,
                          threshold |-> DefaultConfidenceThreshold,
                          latest |-> DefaultConfidenceThreshold,
                          same |-> TRUE,
                          behind |-> "no"]
                    ELSE [aiClosure EXCEPT !.latest = DefaultConfidenceThreshold,
                                           !.same = FALSE,
                                           !.behind = "no"]
    /\ aiPending' = [aiPending EXCEPT !.linked = FALSE]
    /\ UNCHANGED <<aiState, aiReturned, aiHistory, detectorVars, detectionFrame>>

\* setConfidenceThreshold: the config of the latest render is assigned to,
\* the objects of the closure are filtered again
SetConfidenceThreshold(threshold) ==
    LET t == ClampThreshold(threshold)
        filteredObjects == FilterByConfidence(aiClosure.objects, t)
    IN  /\ aiClosure' = [aiClosure EXCEPT !.latest = t,
                                          !.threshold = IF aiClosure.same THEN t ELSE @,
                                          !.behind = "objects"]
        /\ aiPending' = IF aiPending.active /\ aiPending.linked
                        THEN [aiPending EXCEPT !.threshold = t]
                        ELSE aiPending
        /\ aiState' = [aiState EXCEPT !.objects = filteredObjects]
        /\ aiReturned' = [by |-> "setConfidenceThreshold", objects |-> filteredObjects]
        /\ aiHistory' = [aiHistory EXCEPT !.requested = t, !.since = "other"]
        /\ UNCHANGED <<detectorVars, detectionFrame>>

\* processFrame of the hook when detectObjects returns [] at its guard
UseAIProcessFrameThrottled ==
    /\ DetectObjectsAtGuard
    /\ LET filteredObjects ==
               SliceToMaxObjects(FilterByConfidence(<<>>, aiClosure.threshold))
           trackedObjects == TrackObjects(filteredObjects, aiClosure.objects,
                                          enableTracking)
       IN  /\ aiState' = [isProcessing |-> FALSE, objects |-> trackedObjects,
                          error |-> FALSE]
           /\ aiReturned' = [by |-> "processFrame", objects |-> trackedObjects]
    /\ aiClosure' = [aiClosure EXCEPT !.behind = "objects"]
    /\ aiHistory' = [aiHistory EXCEPT !.since = IF @ = "nothing" THEN "throttled" ELSE @]
    /\ UNCHANGED <<aiPending, detectionFrame>>

\* processFrame of the hook up to the await of a detectObjects that detects
UseAIProcessFrameStart ==
    /\ DetectObjectsToTimer
    /\ aiState' = [aiState EXCEPT !.isProcessing = TRUE, !.error = FALSE]
    /\ aiClosure' = [aiClosure EXCEPT !.behind = IF @ = "no" THEN "state" ELSE @]
    /\ aiPending' = [active |-> TRUE,
                     objects |-> aiClosure.objects,
                     threshold |-> aiClosure.threshold,
                     linked |-> aiClosure.same,
                     fresh |-> aiClosure.behind = "no"]
    /\ UNCHANGED <<aiReturned, aiHistory, detectionFrame>>

\* processFrame of the hook from the objects detectObjects resolved with
UseAIProcessFrameResume ==
    /\ aiPending.active
    /\ \E detectedObjects \in SceneDetections(dateNow) :
          /\ DetectObjectsFromTimer(detectedObjects)
          /\ \E trackedObjects \in
                 {TrackObjects(SliceToMaxObjects(
                                   FilterByConfidence(detectedObjects,
                                                      aiPending.threshold)),
                               aiPending.objects, enableTracking)} :
                /\ aiState' = [aiState EXCEPT !.isProcessing = FALSE,
                                              !.objects = trackedObjects]
                /\ aiReturned' = [by |-> "processFrame", objects |-> trackedObjects]
                /\ aiHistory' = [aiHistory EXCEPT !.tracked = trackedObjects,
                                                  !.since = "nothing"]
    /\ aiClosure' = [aiClosure EXCEPT !.behind = "objects"]
    /\ aiPending' = NoPending
    /\ UNCHANGED detectionFrame

\* processFrame of the hook when detectObjects rejects: catch
UseAIProcessFrameCatch ==
    /\ aiPending.active
    /\ DetectObjectsThrowsFromTimer
    /\ aiState' = [aiState EXCEPT !.isProcessing = FALSE, !.error = TRUE]
    /\ aiReturned' = [by |-> "processFrame", objects |-> <<>>]
    /\ aiClosure' = [aiClosure EXCEPT !.behind = IF @ = "no" THEN "state" ELSE @]
    /\ aiPending' = NoPending
    /\ aiHistory' = [aiHistory EXCEPT !.since = "other"]
    /\ UNCHANGED detectionFrame

\* time passes, a detection's delay at a time
UseAIDetectionTick ==
    /\ DateNowAdvancesBy(DetectionDelay)
    /\ UNCHANGED <<detectionVars, detectionFrame>>

----------------------------------------------------------------------------
(* The specifications *)

vars == <<engineVars, hookVars, analysisVars>>

\* the engine driven directly
Tick == ClockTick /\ UNCHANGED <<hookVars, analysisVars>>

ProcessFrame(b, motion) ==
    SLAMProcessFrame(b, motion) /\ UNCHANGED <<hookVars, analysisVars>>

ProcessFrameThrows(motion) ==
    SLAMProcessFrameThrows(motion) /\ UNCHANGED <<hookVars, analysisVars>>

ResetMap == SLAMResetMap /\ UNCHANGED <<hookVars, analysisVars>>

Init == EngineInit /\ HookInit /\ TrackerIdle /\ MorphIdle /\ EnhancerIdle /\ DetectorIdle
        /\ DetectionIdle /\ CameraIdle

Next ==
    \/ Tick
    \/ \E b \in BatchIds, motion \in MotionInputs : ProcessFrame(b, motion)
    \/ \E motion \in MotionInputs : ProcessFrameThrows(motion)
    \/ ResetMap

Spec == Init /\ [][Next]_vars

\* the engine given frames without depth samples, the trajectory followed
\* over more calls and a longer window
EmptyBatch == CHOOSE b \in BatchIds : Batches[b] = <<>>

MoveFrame(motion) ==
    /\ SLAMProcessFrameWithin(EmptyBatch, motion, MaxMoves, TrajectoryWindow)
    /\ UNCHANGED <<hookVars, analysisVars>>

MoveFrameThrows(motion) ==
    /\ SLAMProcessFrameThrowsWithin(motion, MaxMoves, TrajectoryWindow)
    /\ UNCHANGED <<hookVars, analysisVars>>

NextTrajectory ==
    \/ Tick
    \/ \E motion \in MotionInputs : MoveFrame(motion)
    \/ \E motion \in MotionInputs : MoveFrameThrows(motion)
    \/ ResetMap

SpecTrajectory == Init /\ [][NextTrajectory]_vars

\* the engine given frames whose depth samples cluster
NextLandmarks ==
    \/ Tick
    \/ \E b \in LandmarkBatchIds, motion \in MotionInputs : ProcessFrame(b, motion)
    \/ ResetMap

SpecLandmarks == Init /\ [][NextLandmarks]_vars

\* the engine driven through the hook, the clock standing still
NextHook ==
    \/ Render
    \/ StartMapping
    \/ StopMapping
    \/ \E motion \in MotionHints : SetMotionVector(motion)
    \/ UseMappingProcessFrameInactive
    \/ \E b \in BatchIds : UseMappingProcessFrame(b)
    \/ \E error \in Thrown : UseMappingProcessFrameThrows(error)
    \/ UseMappingResetMap
    \/ UseMappingOptimizeMap

SpecHook == Init /\ [][NextHook]_vars

\* the batch of the runs that read the hook
ReadBatch == CHOOSE b \in BatchIds : Batches[b] = <<sA, sB>>

\* the hook with its readers, on the frames of one batch
NextHookReads ==
    \/ Render
    \/ StartMapping
    \/ StopMapping
    \/ \E motion \in MotionHints : SetMotionVector(motion)
    \/ UseMappingProcessFrameInactive
    \/ UseMappingProcessFrame(ReadBatch)
    \/ UseMappingResetMap
    \/ UseMappingOptimizeMap
    \/ ExportMap
    \/ GetTrajectory
    \/ GetLandmarks
    \/ GetMapPoints

SpecHookReads == Init /\ [][NextHookReads]_vars

\* trackObjects, frame after frame
InitTracker == EngineInit /\ HookInit /\ TrackerInit /\ MorphIdle /\ EnhancerIdle /\ DetectorIdle
        /\ DetectionIdle /\ CameraIdle

NextTracker ==
    \/ \E ds \in DetectionLists : TrackFrame(ds)
    \/ ClearObjects

SpecTracker == InitTracker /\ [][NextTracker]_vars

\* analyzeMorphology on every object and sample list of the model
InitMorphology == EngineInit /\ HookInit /\ TrackerIdle /\ MorphInit /\ EnhancerIdle /\ DetectorIdle
        /\ DetectionIdle /\ CameraIdle

NextMorphology == AnalyzeMorphologyCall

SpecMorphology == InitMorphology /\ [][NextMorphology]_vars

\* enhanceNightVision on every frame and setting of the model
InitEnhancer == EngineInit /\ HookInit /\ TrackerIdle /\ MorphIdle /\ EnhancerInit /\ DetectorIdle
        /\ DetectionIdle /\ CameraIdle

NextEnhancer ==
    \/ BrightnessStage
    \/ ContrastStage
    \/ GammaStage
    \/ DenoiseStage
    \/ EdgeStage
    \/ ThermalStage

SpecEnhancer == InitEnhancer /\ [][NextEnhancer]_vars

\* detectObjects called at any time
InitDetector == EngineInit /\ HookInit /\ TrackerIdle /\ MorphIdle /\ EnhancerIdle /\ DetectorIdle
        /\ DetectionIdle /\ CameraIdle

NextDetector ==
    \/ DetectorTick
    \/ DetectObjectsSkipped
    \/ DetectObjectsStart
    \/ DetectObjectsResume
    \/ DetectObjectsThrows

SpecDetector == InitDetector /\ [][NextDetector]_vars

\* the detection hook: frames processed and thresholds set as time passes,
\* with the renders in between
NextDetection ==
    \/ UseAIDetectionTick
    \/ UseAIDetectionRender
    \/ \E threshold \in ThresholdInputs : SetConfidenceThreshold(threshold)
    \/ UseAIProcessFrameThrottled
    \/ UseAIProcessFrameStart
    \/ UseAIProcessFrameResume
    \/ UseAIProcessFrameCatch

SpecDetection == InitDetector /\ [][NextDetection]_vars

\* the camera hook: the calls of its controls, with the renders in between
NextCamera ==
    \/ UseCameraRender
    \/ Initialize
    \/ InitializeResolves
    \/ InitializeRejects
    \/ StartCameraInitializes
    \/ StartCamera
    \/ StopCamera
    \/ \E deviceId \in DeviceIds : SwitchCamera(deviceId)

SpecCamera == InitDetector /\ [][NextCamera]_vars

----------------------------------------------------------------------------
(* Properties of the engine *)

\* processFrame has just returned normally
Returned == last.op = "processFrame" /\ ~last.threw

\* what getCurrentMap shows of a map point
SnapshotPoint(p) == [x |-> p.x, y |-> p.y, z |-> p.z, color |-> p.color]

\* C1 (as claimed): after every processFrame the map holds no two distinct
\* points closer than 0.05 to each other.
C1_NoTwoPointsWithinDedupRadius ==
    \A i, j \in 1 .. Len(mapPoints) :
        i < j => ~Within3D(mapPoints[i], mapPoints[j], DedupRadius)

\* C2: after every processFrame the map holds at most the cap of points,
\* at most the cap of landmarks and at most the cap of trajectory samples.
C2_CapsRespected ==
    /\ Len(mapPoints) <= MapPointCap
    /\ Len(landmarks) <= LandmarkCap
    /\ Len(trajectory.points) <= TrajectoryCap

\* a call that pushed past all three caps has returned with each at its cap
C2_Witness ==
    /\ Returned
    /\ Len(last.batch) > MapPointCap
    /\ calls > TrajectoryCap
    /\ Len(mapPoints) = MapPointCap
    /\ Len(landmarks) = LandmarkCap
    /\ Len(trajectory.points) = TrajectoryCap

\* the 3D points the samples of the model project to, seen from the
\* current pose
ProbePoints ==
    {ProjectPoint(dp, lastPosition, now) :
        dp \in UNION {SeqToSet(Batches[b]) : b \in BatchIds}}

\* C3: on every reachable map, inserting the same point a second time, in
\* the same batch or in the batch that follows, leaves the number of map
\* points as the first insertion left it.
C3_DedupIdempotent ==
    \A p \in ProbePoints :
        LET once == AddPointsToMap(mapPoints, <<p>>)
        IN  /\ Len(AddPointsToMap(mapPoints, <<p, p>>)) = Len(once)
            /\ Len(AddPointsToMap(once, <<p>>)) = Len(once)

\* processFrame was given the same sample twice and the map holds it once
C3_Witness ==
    /\ Returned
    /\ last.batch = <<sP, sP>>
    /\ calls = 1
    /\ Len(mapPoints) = 1

\* the samples project to points pairwise farther apart than 0.05 and all
\* have confidence above 0.3, and there are at most the cap of them
SpacedAndConfident(points) ==
    /\ Len(points) <= MapPointCap
    /\ \A i \in 1 .. Len(points) : points[i].confidence > MinConfidence
    /\ \A i, j \in 1 .. Len(points) :
          i < j => Distance3DSq(points[i], points[j]) > DedupRadius * DedupRadius

\* C6: a processFrame on an empty map whose samples project pairwise
\* farther apart than 0.05, with confidences above 0.3 and no more of them
\* than the cap, leaves exactly those points in the map, one per sample.
C6_NoSpuriousDropOrMerge ==
    [][(last'.op = "processFrame" /\ ~last'.threw /\ mapPoints = <<>>)
       => LET projected == ConvertDepthTo3D(last'.batch, lastPosition', now')
          IN  SpacedAndConfident(projected) => mapPoints' = projected]_vars

\* the first call took two spaced samples and the map holds a point for each
C6_Witness ==
    /\ Returned
    /\ calls = 1
    /\ last.batch = <<sA, sB>>
    /\ SpacedAndConfident(mapPoints)
    /\ Len(mapPoints) = Len(last.batch)

\* the points of a call that its insertion step left in the map
InsertedPoints(map, new3DPoints) ==
    SeqToSet(AddPointsToMap(map, new3DPoints)) \cap SeqToSet(new3DPoints)

\* the map points after the insertion step that pass optimizeMap's filter
SurvivorsOfPruning(map, new3DPoints, t) ==
    SelectSeq(AddPointsToMap(map, new3DPoints), LAMBDA p :
        t - p.timestamp < MaxAge /\ p.confidence > MinConfidence)

\* every map point is at most 30 s old
NoneOlderThanMaxAge(map, t) ==
    \A i \in 1 .. Len(map) : t - map[i].timestamp <= MaxAge

\* the confidence 0.9 of the claim, which sample sP carries
HighConfidence == sP.confidence

C9_EmptyInputChangesNothing ==
    [][(last'.op = "processFrame" /\ ~last'.threw /\ last'.batch = <<>>)
       => /\ SeqToSet(mapPoints') = SeqToSet(mapPoints)
          /\ SeqToSet(landmarks') = SeqToSet(landmarks)]_vars

\* C9 (amended): a processFrame with an empty depth-sample list adds no map
\* point and changes no landmark; it removes exactly the map points that
\* have reached the age of 30 s, so the map is unchanged when there is none.
C9_EmptyInputOnlyAgesOut ==
    [][(last'.op = "processFrame" /\ ~last'.threw /\ last'.batch = <<>>)
       => /\ mapPoints' = SelectSeq(mapPoints, LAMBDA p : now' - p.timestamp < MaxAge)
          /\ landmarks' = landmarks]_vars

\* an empty call has returned and points and landmarks of the call before
\* it are still there
C9_Witness ==
    /\ Returned
    /\ calls = 2
    /\ last.batch = <<>>
    /\ mapPoints # <<>>
    /\ landmarks # <<>>

----------------------------------------------------------------------------
(* Properties of the hook *)

\* C10: whenever the engine's processFrame throws under the hook's
\* processFrame while mapping is active, the call still returns: the state's
\* error is a string, isProcessing is false, currentMap is what it was, and
\* the value returned is the map snapshot the callback held, which is the
\* state's currentMap when the callback is the one of the latest render.
C10_HookCatchesEngineFault ==
    [][(calls' = calls + 1 /\ last'.threw)
       => /\ state'.error # Null
          /\ Len(state'.error) = 1
          /\ state'.isProcessing = FALSE
          /\ state'.currentMap = state.currentMap
          /\ returned' = captured.currentMap
          /\ (captured = Closure(state) => returned' = state.currentMap)]_vars

\* a call has succeeded and the next one has thrown: the error is set and
\* the snapshot of the successful call is both kept and returned
C10_Witness ==
    /\ calls = 2
    /\ last.op = "processFrame"
    /\ last.threw
    /\ state.isActive
    /\ ~state.isProcessing
    /\ state.error = ErrorString("depthPoints is not iterable")
    /\ state.currentMap.points # <<>>
    /\ returned = state.currentMap

----------------------------------------------------------------------------
(* Properties of the tracker, of the morphology analysis and of the       *)
(* enhancer                                                                *)

\* C4: with tracking enabled, a new detection that has the label of a
\* previous object A and a centre less than 100 px from A's, no other
\* previous object having that label, comes out with A's id; a new detection
\* with no previous object of its label less than 100 px away comes out with
\* the id it was detected with.
C4_TrackerIdentityStability ==
    enableTracking =>
        \A k \in 1 .. Len(tracked.newObjects) :
            LET new == tracked.newObjects[k]
                out == tracked.trackedObjects[k]
                prev == tracked.previousObjects
                Near(i) ==
                    /\ prev[i].label = new.label
                    /\ CenterDistanceSq(new, prev[i])
                           < TrackingTolerance * TrackingTolerance
            IN  /\ \A a \in 1 .. Len(prev) :
                      (Near(a) /\ \A b \in 1 .. Len(prev) :
                                     b # a => prev[b].label # prev[a].label)
                      => out.id = prev[a].id
                /\ (\A a \in 1 .. Len(prev) : ~Near(a)) => out.id = new.id

\* a second frame shows a person 64 px from the only person of the first
\* frame, and one at exactly 100 px: the first comes out with the id of the
\* first frame's person, the second with its own
C4_Witness ==
    /\ enableTracking
    /\ frames = 2
    /\ Len(tracked.previousObjects) = 1
    /\ tracked.previousObjects[1].label = "pessoa"
    /\ tracked.previousObjects[1].center = [x |-> 100, y |-> 100]
    /\ Len(tracked.newObjects) = 2
    /\ tracked.newObjects[1].center = [x |-> 150, y |-> 140]
    /\ tracked.newObjects[1].label = "pessoa"
    /\ tracked.newObjects[2].center = [x |-> 160, y |-> 180]
    /\ tracked.trackedObjects[1].id = tracked.previousObjects[1].id
    /\ tracked.trackedObjects[1].id # tracked.newObjects[1].id
    /\ tracked.trackedObjects[2].id = tracked.newObjects[2].id

\* C5: whatever the depth-sample list, for an object whose bounding box
\* (edges included) holds none of the samples every call of analyzeMorphology
\* returns the default profile: the object's id, the shape 'indefinido', and
\* 0 for the volume, the surface area, the three dimensions, the complexity
\* and the symmetry.
C5_DefaultMorphologyProfile ==
    (\A i \in 1 .. Len(morphSamples) :
        ~(/\ morphSamples[i].x >= morphObject.bbox.x
          /\ morphSamples[i].x <= morphObject.bbox.x + morphObject.bbox.width
          /\ morphSamples[i].y >= morphObject.bbox.y
          /\ morphSamples[i].y <= morphObject.bbox.y + morphObject.bbox.height))
    => \A n \in 1 .. Len(morphResults) :
          /\ morphResults[n].objectId = morphObject.id
          /\ morphResults[n].shape = "indefinido"
          /\ morphResults[n].volume = 0
          /\ morphResults[n].surfaceArea = 0
          /\ morphResults[n].dimensions = [width |-> 0, height |-> 0, depth |-> 0]
          /\ morphResults[n].complexity = Zero
          /\ morphResults[n].symmetry = Zero
          /\ morphResults[n] = morphResults[1]

\* analyzeMorphology was called twice on the square object with samples that
\* all lie outside its box, one of them level with it, and returned the
\* default profile
C5_Witness ==
    /\ morphObject.id = "obj_square"
    /\ Len(morphSamples) = 2
    /\ morphSamples[1] = [x |-> 20, y |-> 35, depth |-> 20, confidence |-> 80]
    /\ morphSamples[2] = [x |-> 5, y |-> 5, depth |-> 95, confidence |-> 60]
    /\ Len(morphResults) = 2
    /\ morphResults[2].shape = "indefinido"
    /\ morphResults[2].objectId = "obj_square"

\* C8: at neutral settings each of the five stages adjustBrightness,
\* adjustContrast, adjustGamma, denoiseImage and enhanceEdges returns the
\* pixels it was given (each already when its own setting is neutral), so
\* enhanceNightVision returns applyThermalEffect of its input.
C8_NeutralSettingsOnlyThermal ==
    [][/\ (enhStage' = "brightness" /\ enhSettings.brightness = 10)
             => enhanced' = enhanced
       /\ (enhStage' = "contrast" /\ enhSettings.contrast = 10)
             => enhanced' = enhanced
       /\ (enhStage' = "gamma" /\ enhSettings.gamma = 10)
             => enhanced' = enhanced
       /\ (enhStage' = "denoise" /\ enhSettings.noiseReduction = 0)
             => enhanced' = enhanced
       /\ (enhStage' = "edges" /\ enhSettings.edgeEnhancement = 0)
             => enhanced' = enhanced
       /\ (enhStage' = "returned" /\ enhSettings = NeutralSettings)
             => enhanced' = ApplyThermalEffect(enhInput)]_vars

\* enhanceNightVision has returned, at neutral settings, for a frame of a
\* bright and a dark pixel among others: the result is
\* the thermal remap of the input, and differs from the input
C8_Witness ==
    /\ enhStage = "returned"
    /\ enhSettings = NeutralSettings
    /\ enhInput.data[5] = Bright
    /\ enhInput.data[2] = Dark
    /\ enhanced = ApplyThermalEffect(enhInput)
    /\ enhanced # enhInput

\* C11: a processFrame of the engine that fails part-way leaves the map
\* points, the landmarks, the trajectory (samples and totalDistance) and the
\* camera pose equal to their values before the call
C11_FaultLeavesEngineState ==
    [][(calls' = calls + 1 /\ last'.threw)
       => /\ mapPoints' = mapPoints
          /\ landmarks' = landmarks
          /\ trajectory' = trajectory
          /\ lastPosition' = lastPosition]_vars

\* C12: Reset empties the engine (no map points, no landmarks, an empty
\* trajectory with totalDistance 0, the camera at the origin), empties the
\* hook's map, trajectory, statistics and error, sets the frame counters to 0
\* and leaves isActive as it was
C12_ResetEmptiesAllButActive ==
    [][(last.op # "resetMap" /\ last'.op = "resetMap")
       => /\ mapPoints' = <<>>
          /\ landmarks' = <<>>
          /\ trajectory' = EmptyTrajectory
          /\ lastPosition' = <<0, 0, 0>>
          /\ state'.currentMap = EmptyMap
          /\ StateTrajectory(state)' = EmptyTrajectory
          /\ state'.landmarks = <<>>
          /\ state'.mapPoints = <<>>
          /\ state'.statistics = EmptyStatistics
          /\ state'.error = Null
          /\ performanceRef'.frameCount = 0
          /\ performanceRef'.totalProcessingTime = 0
          /\ state'.isActive = state.isActive]_vars

\* Reset has just run on an active session whose last frame returned points
C12_Witness ==
    /\ last.op = "resetMap"
    /\ state.isActive
    /\ calls > 0
    /\ returned.points # <<>>
    /\ mapPoints = <<>>
    /\ state.currentMap = EmptyMap

\* C13: every detectObjects call made less than 100 ms after the previous
\* detectObjects call, whatever that call did, detects nothing and returns
\* the empty list
C13_ThrottledAfterAnyInvocation ==
    [][(/\ invocations' = invocations + 1
        /\ invocation'.previous >= 0
        /\ invocation'.at - invocation'.previous < ProcessInterval)
       => /\ ~invocation'.worked
          /\ invocation'.returned = <<>>]_vars

\* C14: the output of trackObjects has the length and the order of newObjects
\* and every field other than id equal to the input object's; with no
\* previous objects, or tracking disabled, it is newObjects, ids included
C14_TrackingChangesOnlyIds ==
    /\ Len(tracked.trackedObjects) = Len(tracked.newObjects)
    /\ \A k \in 1 .. Len(tracked.newObjects) :
          [tracked.trackedObjects[k] EXCEPT !.id = tracked.newObjects[k].id]
              = tracked.newObjects[k]
    /\ (~enableTracking \/ tracked.previousObjects = <<>>)
          => tracked.trackedObjects = tracked.newObjects

\* a frame of a car and a person is tracked against a frame with a person 64
\* px away: the car comes out first, as detected, the person second with the
\* previous person's id
C14_Witness ==
    /\ enableTracking
    /\ Len(tracked.previousObjects) = 1
    /\ tracked.previousObjects[1].label = "pessoa"
    /\ Len(tracked.newObjects) = 2
    /\ tracked.newObjects[1].label = "carro"
    /\ tracked.newObjects[2].label = "pessoa"
    /\ tracked.trackedObjects[1] = tracked.newObjects[1]
    /\ tracked.trackedObjects[2].id = tracked.previousObjects[1].id
    /\ tracked.trackedObjects[2].id # tracked.newObjects[2].id
    /\ tracked.trackedObjects[2].timestamp # tracked.previousObjects[1].timestamp

\* C15: the engine's map points, landmarks, trajectory and camera pose
\* change only in a step of processFrame or of Reset: startMapping,
\* stopMapping, exportMap, the hook's optimizeMap, setMotionVector and the
\* getters leave all four as they are
C15_OnlyProcessFrameAndResetMutate ==
    [][<<mapPoints, landmarks, trajectory, lastPosition>>'
           # <<mapPoints, landmarks, trajectory, lastPosition>>
       => \/ calls' = calls + 1
          \/ last.op # "resetMap" /\ last'.op = "resetMap"]_vars

\* after a frame that put points in the map the session was stopped, a motion
\* hint set, the map optimized through the hook and exported: the engine
\* still holds the points and the pose of that frame
C15_Witness ==
    /\ mapPoints # <<>>
    /\ trajectory.points # <<>>
    /\ ~state.isActive
    /\ motionVectorRef # NoMotion
    /\ state.currentMap = GetCurrentMap(mapPoints, landmarks, lastPosition)
    /\ state.statistics.processingTime = 0
    /\ exported.call = "exportMap"
    /\ exported.value.map.points # <<>>

\* C16: while the mapping session is not active the hook's processFrame does
\* not invoke the engine and leaves the map points, the landmarks, the
\* trajectory, the pose, the statistics and the frame counters as they are;
\* stopMapping itself does not clear the accumulated map
C16_InactiveGuard ==
    [][/\ ~state.isActive
          => (calls' = calls
              /\ ((returned' # returned /\ last' = last)
                  => UNCHANGED <<mapPoints, landmarks, trajectory, lastPosition,
                                 state, performanceRef>>))
       /\ (state.isActive /\ ~state'.isActive)
          => (UNCHANGED <<mapPoints, landmarks, trajectory, lastPosition>>
              /\ state'.currentMap = state.currentMap
              /\ state'.mapPoints = state.mapPoints)]_vars

\* C17: when several previous objects have the new object's label and a
\* centre less than 100 px from its centre, the new object comes out with
\* the id of the nearest of them, whatever the order of previousObjects
C17_NearestNeighbourAssociation ==
    enableTracking =>
        \A k \in 1 .. Len(tracked.newObjects) :
            LET new == tracked.newObjects[k]
                prev == tracked.previousObjects
                near == {i \in 1 .. Len(prev) : IsSimilar(prev[i], new)}
                nearest == {j \in near :
                               \A i \in near : CenterDistanceSq(new, prev[j])
                                                  <= CenterDistanceSq(new, prev[i])}
            IN  near # {} =>
                    \E j \in nearest : tracked.trackedObjects[k].id = prev[j].id

\* C18: on every reachable map, for a new point with at least one map point
\* within 0.05, addPointsToMap leaves the size of the map as it is; if the
\* point's confidence is strictly greater than the highest confidence among
\* those neighbours it takes the slot of a neighbour of that confidence and
\* every other map point stays; otherwise the map is unchanged
C18_ConfidenceDrivenReplacement ==
    \A p \in ProbePoints :
        LET nearby == SeqToSet(NearbyIndices(mapPoints, p))
            highest == {i \in nearby :
                           \A j \in nearby :
                               mapPoints[i].confidence >= mapPoints[j].confidence}
            after == AddPointsToMap(mapPoints, <<p>>)
        IN  nearby # {} =>
               /\ Len(after) = Len(mapPoints)
               /\ IF \A j \in nearby : p.confidence > mapPoints[j].confidence
                  THEN \E i \in highest : after = [mapPoints EXCEPT ![i] = p]
                  ELSE after = mapPoints

\* the second processFrame brought a point of confidence 0.9 within 0.05 of
\* the two points of confidence 0.5 of the first: the map still has two
\* points, one of them the new one
C18_Witness ==
    /\ Returned
    /\ calls = 2
    /\ last.batch = <<sP, sP>>
    /\ Len(mapPoints) = 2
    /\ \E i, j \in 1 .. 2 :
          /\ mapPoints[i].confidence = sP.confidence
          /\ mapPoints[j].confidence = sA.confidence
          /\ Distance3DSq(mapPoints[i], mapPoints[j]) < DedupRadius * DedupRadius

\* C19: at the end of a processFrame a map point is dropped exactly when it
\* is more than 30 s old or has confidence 0.3 or less: the points 30 s old
\* or younger with confidence above 0.3 are the ones kept, as long as no
\* more of them than the cap remain
C19_PruningPredicate ==
    [][(last'.op = "processFrame" /\ ~last'.threw /\ calls' = calls + 1)
       => LET new3DPoints == ConvertDepthTo3D(last'.batch, lastPosition', now')
              kept == SelectSeq(AddPointsToMap(mapPoints, new3DPoints), LAMBDA p :
                          now' - p.timestamp <= MaxAge /\ p.confidence > MinConfidence)
          IN  Len(kept) <= MapPointCap => mapPoints' = kept]_vars

\* of the elements of all, more than cap of them, kept are cap elements and
\* none of the others has a confidence strictly greater than a kept one's
KeptAreOfHighestConfidence(all, kept, cap) ==
    Len(all) > cap =>
        /\ Len(kept) = cap
        /\ SeqToSet(kept) \subseteq SeqToSet(all)
        /\ \A d \in SeqToSet(all) \ SeqToSet(kept), k \in SeqToSet(kept) :
              d.confidence <= k.confidence

\* C20: in every processFrame, when more points than the cap survive the age
\* and confidence pruning the points kept are that many points of highest
\* confidence, and when more landmarks than the cap exist the landmarks kept
\* are that many of highest confidence
C20_CapKeepsHighestConfidence ==
    [][(last'.op = "processFrame" /\ ~last'.threw /\ calls' = calls + 1)
       => \A new3DPoints \in {ConvertDepthTo3D(last'.batch, lastPosition', now')} :
          \A survivors \in {SurvivorsOfPruning(mapPoints, new3DPoints, now')},
             candidates \in {DetectFrom(1, ClusterPoints(new3DPoints), new3DPoints,
                                        landmarks, now', last'.random)} :
              /\ KeptAreOfHighestConfidence(survivors, mapPoints', MapPointCap)
              /\ KeptAreOfHighestConfidence(candidates, landmarks', LandmarkCap)]_vars

\* a second call has returned: more points than the cap survived and the map
\* holds the cap's worth, all of the highest confidence of the samples, some
\* from the first call; the landmark kept is the one this call created, of
\* the highest confidence drawn, in place of the first call's
C20_Witness ==
    /\ Returned
    /\ calls = 2
    /\ Len(last.batch) > MapPointCap
    /\ Len(mapPoints) = MapPointCap
    /\ \A i \in 1 .. Len(mapPoints) : mapPoints[i].confidence = sE1.confidence
    /\ \E i \in 1 .. Len(mapPoints) : mapPoints[i].timestamp < now
    /\ Len(landmarks) = LandmarkCap
    /\ landmarks[1].id[2] = now
    /\ \A c \in LandmarkConfidences : landmarks[1].confidence >= c

\* C21: every processFrame given a motion hint h moves the pose by 0.01 h on
\* each axis, every processFrame pushes one trajectory sample, taken at the new
\* pose, after the samples it had (the oldest leaving when the cap is passed),
\* and the pose is always the sum of the movements applied since the last
\* resetMap, counted from the origin
C21_PoseIntegration ==
    /\ [][calls' = calls + 1
          => /\ last'.motion # NoMotion
                => lastPosition' = <<lastPosition[1] + last'.motion[1] * MotionScale,
                                     lastPosition[2] + last'.motion[2] * MotionScale,
                                     lastPosition[3] + last'.motion[3] * MotionScale>>
             /\ \E conf \in TrajectoryConfidences :
                   LET pushed == Append(trajectory.points,
                                        [position |-> lastPosition',
                                         timestamp |-> now', confidence |-> conf])
                   IN  trajectory'.points \in {pushed, Tail(pushed)}]_vars
    /\ [](lastPosition = applied.displacement)

\* three calls since the last resetMap, two of them hinted along x and one
\* simulated, have moved the camera
C21_Witness ==
    /\ calls = 3
    /\ last.op = "processFrame"
    /\ last.motion = <<20, 0, 0>>
    /\ \E simulated \in SimulatedMoves :
          lastPosition = <<2 * 20 * MotionScale + simulated[1], simulated[2],
                           simulated[3]>>
    /\ trajectory.points[Len(trajectory.points)].position = lastPosition

\* C22: the samples are in the order they were pushed, their timestamps never
\* decreasing; a processFrame pushes its sample last, the oldest leaving when
\* that makes more samples than the cap; totalDistance is the sum of the
\* lengths of the movements applied since the last resetMap, and only a
\* resetMap lowers it
C22_SlidingWindow ==
    /\ [](\A i, j \in 1 .. Len(trajectory.points) :
             i < j => trajectory.points[i].timestamp <= trajectory.points[j].timestamp)
    /\ [][calls' = calls + 1
          => \E conf \in TrajectoryConfidences :
                LET pushed == Append(trajectory.points,
                                     [position |-> lastPosition',
                                      timestamp |-> now', confidence |-> conf])
                IN  trajectory'.points =
                        IF Len(trajectory.points) = TrajectoryWindow
                        THEN Tail(pushed) ELSE pushed]_vars
    /\ [](trajectory.totalDistance = applied.distance)
    /\ [][last'.op # "resetMap"
          => trajectory'.totalDistance >= trajectory.totalDistance]_vars

\* four hinted calls in a row at different times: the window holds the last
\* two samples, and totalDistance still counts the movements of the samples
\* that left
C22_Witness ==
    /\ calls = MaxMoves
    /\ last.op = "processFrame"
    /\ Len(trajectory.points) = TrajectoryWindow
    /\ trajectory.points[1].timestamp < trajectory.points[2].timestamp
    /\ trajectory.points[1].position[1] = (MaxMoves - 1) * 20 * MotionScale
    /\ trajectory.totalDistance = MaxMoves * 20 * MotionScale

\* C23: in every processFrame, each member of each cluster detectLandmarks
\* forms is a point the insertion step of that call left in the map, and so is
\* each member of the cluster a landmark of that call was created from
C23_OnlyInsertedPointsClustered ==
    [][(last'.op = "processFrame" /\ ~last'.threw /\ calls' = calls + 1)
       => \A new3DPoints \in {ConvertDepthTo3D(last'.batch, lastPosition', now')} :
          \A inserted \in {InsertedPoints(mapPoints, new3DPoints)},
             clusters \in {ClusterPoints(new3DPoints)} :
              /\ \A l \in SeqToSet(landmarks') \ SeqToSet(landmarks) :
                    \A i \in 1 .. Len(clusters[l.id[3]]) :
                        new3DPoints[clusters[l.id[3]][i]] \in inserted
              /\ \A k \in 1 .. Len(clusters) :
                    \A i \in 1 .. Len(clusters[k]) :
                        new3DPoints[clusters[k][i]] \in inserted]_vars

\* C24: no two landmarks are closer than 0.2 to each other, and every
\* landmark a processFrame creates comes from a cluster of at least 10 of
\* the call's points
C24_LandmarksApartAndFromTenPoints ==
    /\ [](\A i, j \in 1 .. Len(landmarks) :
             i < j => DistanceSq(landmarks[i].position, landmarks[j].position)
                          >= LandmarkRadius * LandmarkRadius)
    /\ [][(last'.op = "processFrame" /\ ~last'.threw /\ calls' = calls + 1)
          => \A clusters \in {ClusterPoints(ConvertDepthTo3D(last'.batch,
                                                             lastPosition', now'))} :
                \A l \in SeqToSet(landmarks') \ SeqToSet(landmarks) :
                    Cardinality(SeqToSet(clusters[l.id[3]])) >= MinLandmarkSize]_vars

\* the samples inside the object's bounding box, edges included
MatchedSamples ==
    SelectSeq(morphSamples, LAMBDA p :
        /\ p.x >= morphObject.bbox.x
        /\ p.x <= morphObject.bbox.x + morphObject.bbox.width
        /\ p.y >= morphObject.bbox.y
        /\ p.y <= morphObject.bbox.y + morphObject.bbox.height)

\* the sum of the absolute differences of the depths of consecutive samples
SumOfDepthSteps(samples) ==
    SeqSum([i \in 1 .. Len(samples) - 1 |->
               Abs(samples[i + 1].depth - samples[i].depth)])

\* C25: the complexity analyzeMorphology returns is 0 when fewer than 2
\* samples match, and otherwise the sum of the n - 1 absolute differences of
\* the depths of consecutive matched samples divided by n - 1, at most 1
C25_ComplexityIsMeanDepthStep ==
    \A r \in 1 .. Len(morphResults) :
        LET n == Len(MatchedSamples)
            steps == SumOfDepthSteps(MatchedSamples)
        IN  morphResults[r].complexity =
                IF n < 2 THEN Zero
                ELSE IF steps >= 100 * (n - 1) THEN Fraction(100, 1)
                ELSE Fraction(steps, n - 1)

----------------------------------------------------------------------------
(* C27 *)

\* the ids of a list of objects are pairwise distinct
IdsDistinct(objects) ==
    \A i, j \in 1 .. Len(objects) : objects[i].id = objects[j].id => i = j

\* C27: in the list returned by trackObjects no two objects share an id,
\* whenever the ids of newObjects and those of previousObjects are each
\* pairwise distinct
C27_IdsUniqueInFrame ==
    (/\ frames > 0
     /\ IdsDistinct(tracked.newObjects)
     /\ IdsDistinct(tracked.previousObjects))
        => IdsDistinct(tracked.trackedObjects)

----------------------------------------------------------------------------
(* C26, C30 *)

\* a processFrame of the hook, called with the callback of an up-to-date
\* render, gets the objects of its detection and reports, and since the
\* detection before it the hook was called for throttled ticks at most
DetectingTickReports ==
    /\ aiPending.active
    /\ aiPending.fresh
    /\ ~aiPending'.active
    /\ detected' # Rejected
    /\ aiHistory.since # "other"

\* C26: an object tracked at one tick that ran detection keeps its identity
\* at the next tick that runs detection, whatever throttled ticks came in
\* between: the objects that tick reports are its detections tracked against
\* the objects the hook held after the detection before
C26_IdentityKeptAcrossThrottledTicks ==
    [][DetectingTickReports
       => aiReturned'.objects
            = TrackObjects(SliceToMaxObjects(
                               FilterByConfidence(detected', aiPending.threshold)),
                           aiHistory.tracked, enableTracking)]_vars

\* C30: once setConfidenceThreshold(t) was called, every list the hook
\* reports holds only objects of confidence at least t, clamped, and at
\* most maxObjects of them
C30_ThresholdPersists ==
    aiHistory.requested >= 0
        => /\ \A k \in 1 .. Len(aiReturned.objects) :
                 aiReturned.objects[k].confidence >= aiHistory.requested
           /\ Len(aiReturned.objects) <= MaxObjects

----------------------------------------------------------------------------
(* C29 *)

\* C29: a detectObjects call that arrives while another awaits its timer
\* returns [] and changes neither lastProcessTime nor isProcessing;
\* lastProcessTime changes only in a call that goes on to detect; and the
\* call in flight leaves isProcessing false when it completes, by return or
\* by throw
C29_InFlightGuard ==
    /\ [][(isProcessing /\ invocations' = invocations + 1)
          => /\ invocation'.returned = <<>>
             /\ ~invocation'.worked
             /\ lastProcessTime' = lastProcessTime
             /\ isProcessing' = isProcessing]_vars
    /\ [][lastProcessTime' # lastProcessTime
          => /\ invocations' = invocations + 1
             /\ invocation'.worked
             /\ lastProcessTime' = dateNow]_vars
    /\ [][(isProcessing /\ detected' # detected)
          => /\ ~isProcessing'
             /\ lastProcessTime' = lastProcessTime]_vars

\* a detection threw, the next one is in flight, and a call that arrived
\* after it started was turned away
C29_Witness ==
    /\ detected = Rejected
    /\ isProcessing
    /\ ~invocation.worked
    /\ invocation.returned = <<>>
    /\ invocation.at > lastProcessTime
    /\ invocation.previous = lastProcessTime

----------------------------------------------------------------------------
(* C28 *)

\* C28: whenever no initialize is in flight, an active camera holds a
\* stream: state.stream is not null and the CameraManager has a stream
C28_ActiveCameraHoldsStream ==
    (~cameraPending.active /\ cameraState.isActive)
        => /\ cameraState.stream # NoStream
           /\ cameraManager.stream # NoStream

====
